---- MODULE Spec2Model ----
(***************************************************************************)
(* Team dev log (pudnats): the daily compaction subsystem.                 *)
(*                                                                         *)
(* State: the SQLite tables entries, compactions and action_logs (with the *)
(* AUTOINCREMENT counter of entries), the App's in-memory fields           *)
(* writeLocked and compactMu, the one pooled database connection (held by  *)
(* an open transaction from Begin to Commit/Rollback), the scheduler       *)
(* goroutine, the compactDay call frames and the HTTP handler goroutines.  *)
(*                                                                         *)
(* Time is the UTC wall clock in whole hours since day 0, 00:00.  A stored *)
(* created_at (RFC3339, UTC) is that hour count; a calendar day string     *)
(* "2006-01-02" is the day number.  The host's zone offset tz is fixed for *)
(* a run.                                                                  *)
(***************************************************************************)
EXTENDS Integers, Sequences, FiniteSets, TLC

(* ------------------------------ bounds -------------------------------- *)

\* Last calendar day (UTC) the clock reaches; the clock starts on day 1.
MaxDay == 2

\* Most rows of the entries table a run of SpecTable starts with.
MaxRows == 3

\* A request is taken up while action_logs holds fewer than MaxLogs rows
\* written by request handlers.
MaxLogs == 2

\* Most integrations registered with a dispatcher.
MaxIntegrations == 3

\* Hours of the day (UTC) at which the clock is observed.
DayHours == {1, 17}

\* Host zone offsets in hours (README: TZ=America/New_York; UTC).
TZOffsets == {-5, 0}

Instants == {d * 24 + h : d \in 1..MaxDay, h \in DayHours}

(* ------------------------- program constants -------------------------- *)

\* compactionLoop: if now.Hour() < 17 { continue }
CompactHour == 17

\* handleListEntries: limit := 200
DefaultLimit == 200

\* The limit of a list request: the limit query parameter when it is a
\* number in 1..1000, else the default.
Limits == {1, DefaultLimit}

\* handleCreateEntry: len(req.Content) > 20000
MaxContentLen == 20000

\* users rows (admin create-user), with the token each one holds.
Users ==
    { [id |-> 1, username |-> "alice", token |-> "tokA"],
      [id |-> 2, username |-> "bob", token |-> "tokB"] }

\* The admin bootstrap-admin processes, each with its own connection to
\* the database file.
Boots == {"b1", "b2"}

\* The --username arguments.
BootUsernames == { <<"root">>, <<" ", "ops">>, <<"alice">>, <<" ">> }

\* A bootstrap-admin process that is not running.
IdleBoot == [pc |-> "idle", username |-> "", admins |-> 0, uid |-> 0, err |-> "nil"]

\* The goroutine running compactionLoop.
Sched == "sched"

\* Direct callers of compactDay (the engine on its own, SpecEngine).
Invokers == {"m1", "m2"}

Callers == {Sched} \cup Invokers

\* Goroutines serving API requests.
Handlers == {"h1"}

\* X-Auth-Token / Authorization values the requests carry: one user's token
\* and a token no user holds.
Tokens == {"tokA", "nope"}

\* Request bodies: the JSON content field (a string as a sequence of
\* characters), or a body that is not valid JSON.
BadJSON == <<"{">>

Bodies == { <<" ", "a", "\n", "b">>, <<" ">>, BadJSON }

\* A content one character longer than handleCreateEntry accepts.
LargeBody == [i \in 1..(MaxContentLen + 1) |-> "a"]

\* Integrations by name (Integration.Name()), and the nil interface value.
Integrations == {"slack", "fake"}

NilIntegration == "nil"

\* IntegrationEvent.Type: integrationEventDailyCompact, and another type.
EventTypes == {"daily_compact", "other"}

VARIABLES
    clock,        \* UTC wall clock, hours
    tz,           \* host zone offset, hours
    users,        \* table users: id, username, role
    boot,         \* admin bootstrap-admin processes: position and locals
    entries,      \* table entries
    seq,          \* sqlite_sequence of entries (AUTOINCREMENT)
    compactions,  \* table compactions
    action_logs,  \* table action_logs
    writeLocked,  \* App.writeLocked
    compactMu,    \* App.compactMu: the caller holding it, or "none"
    tx,           \* the open transaction's working copy (holds the connection)
    sched,        \* compactionLoop's position and locals
    cd,           \* compactDay call frames, per caller
    hs,           \* handler goroutines: position, request, locals
    resp,         \* the response a handler has just written
    merges,       \* history: one record per committed compaction
    run,          \* runServe: serving, cancelled (ctx), exited
    disp          \* an IntegrationDispatcher, its Notify loop and its calls

vars ==
    << clock, tz, users, boot, entries, seq, compactions, action_logs, writeLocked,
       compactMu, tx, sched, cd, hs, resp, merges, run, disp >>

dbvars == << entries, seq, compactions, action_logs >>

(* ------------------------------- time --------------------------------- *)

\* date(created_at) in SQLite, and time.Now().UTC() formatted as a day.
UTCDate(t) == t \div 24

\* now.Hour() of time.Now() in the host's zone.
LocalHour(t) == (t + tz) % 24

\* now.Format("2006-01-02") of time.Now() in the host's zone.
LocalDay(t) == (t + tz) \div 24

\* nowUTC(): time.Now().UTC().Format(time.RFC3339)
nowUTC == clock

NextInstant(t) == CHOOSE x \in Instants : x > t /\ \A y \in Instants : y > t => x <= y

(* ------------------------------ strings ------------------------------- *)

IsSpace(c) == c \in {" ", "\n", "\t", "\r"}

RECURSIVE TrimLeft(_)
TrimLeft(s) ==
    IF s # <<>> /\ IsSpace(Head(s)) THEN TrimLeft(Tail(s)) ELSE s

RECURSIVE TrimRight(_)
TrimRight(s) ==
    IF s # <<>> /\ IsSpace(s[Len(s)]) THEN TrimRight(SubSeq(s, 1, Len(s) - 1)) ELSE s

\* strings.TrimSpace
TrimSpace(s) == TrimRight(TrimLeft(s))

\* strings.ReplaceAll(e.Content, "\n", "\\n"): a line feed becomes the two
\* characters backslash and n.
RECURSIVE EscapeNewlines(_)
EscapeNewlines(s) ==
    IF s = <<>> THEN <<>>
    ELSE (IF Head(s) = "\n" THEN <<"\\", "n">> ELSE <<Head(s)>>)
             \o EscapeNewlines(Tail(s))

\* COALESCE(u.username, 'system') over LEFT JOIN users u ON u.id = e.user_id
UsernameOf(uid) ==
    IF \E u \in Users : u.id = uid
    THEN (CHOOSE u \in Users : u.id = uid).username
    ELSE "system"

(* ------------------------------ queries ------------------------------- *)

\* A faulty ordering by id alone.
RowBeforeById(a, b) == a.id < b.id

\* ORDER BY created_at ASC, id ASC
RowBefore(a, b) ==
    \/ a.created_at < b.created_at
    \/ a.created_at = b.created_at /\ a.id < b.id

RECURSIVE OrderAsc(_)
OrderAsc(S) ==
    IF S = {} THEN <<>>
    ELSE LET m == CHOOSE x \in S : \A y \in S \ {x} : RowBefore(x, y)
         IN  <<m>> \o OrderAsc(S \ {m})

Reverse(s) == [i \in 1..Len(s) |-> s[Len(s) + 1 - i]]

\* LIMIT ?
Limit(s, n) == IF Len(s) <= n THEN s ELSE SubSeq(s, 1, n)

\* A faulty ledger lookup that never finds a row.
HasRowNever(comps, day) == FALSE

\* SELECT day FROM compactions WHERE day = ?  (a row was found)
HasRow(comps, day) == \E r \in comps : r.day = day

\* compactDay's SELECT: the day's normal entries, oldest first, with the
\* author's username, scanned into sourceEntry values.
SelectNormal(ents, day) ==
    LET rows == OrderAsc({e \in ents : UTCDate(e.created_at) = day
                                       /\ e.entry_type = "normal"})
    IN  [i \in 1..Len(rows) |->
            [ID |-> rows[i].id, Username |-> UsernameOf(rows[i].user_id),
             Content |-> rows[i].content, CreatedAt |-> rows[i].created_at]]

\* handleListEntries' SELECT: every entry of the day, newest first.
SelectDay(ents, day, limit) ==
    LET rows == Limit(Reverse(OrderAsc({e \in ents : UTCDate(e.created_at) = day})), limit)
    IN  [i \in 1..Len(rows) |->
            [id |-> rows[i].id, user |-> UsernameOf(rows[i].user_id),
             entry_type |-> rows[i].entry_type, content |-> rows[i].content,
             created_at |-> rows[i].created_at]]

(* --------------------------- merged artifact -------------------------- *)

\* One "[<created_at>][<username>] <content>\n" line of the merged body.
CompactLine(e) ==
    <<"[", ToString(e.CreatedAt), "][", e.Username, "] ">>
        \o EscapeNewlines(e.Content) \o <<"\n">>

RECURSIVE CompactLines(_)
CompactLines(src) ==
    IF src = <<>> THEN <<>> ELSE CompactLine(Head(src)) \o CompactLines(Tail(src))

\* The strings.Builder of compactDay: header, blank line, one line per entry.
CompactBody(day, src) ==
    <<"Daily compact for ", ToString(day), "\n\n">> \o CompactLines(src)

(* ------------------------ transaction statements ---------------------- *)

\* No transaction is open: the pooled connection is idle.
NoTx ==
    [active |-> FALSE, owner |-> "none", entries |-> {}, seq |-> 0,
     compactions |-> {}, action_logs |-> <<>>]

\* a.db.Begin(): the transaction takes the only connection and works on its
\* own view of the tables until Commit.
TxBegin(p) ==
    [active |-> TRUE, owner |-> p, entries |-> entries, seq |-> seq,
     compactions |-> compactions, action_logs |-> action_logs]

\* SetMaxOpenConns(1): a statement outside the transaction waits for the
\* connection while a transaction or the open rows of a query hold it.
ConnFree == ~tx.active /\ \A h \in Handlers : hs[h].pc # "rows"

\* A faulty insert that gives the compact entry an owning user.
TxInsertCompactOwned(t, body, now) ==
    [t EXCEPT !.entries = @ \cup {[id |-> t.seq + 1, user_id |-> 1,
                                    entry_type |-> "daily_compact",
                                    content |-> body, created_at |-> now]},
              !.seq = @ + 1]

\* INSERT INTO entries(user_id, entry_type, content, created_at)
\* VALUES(NULL, 'daily_compact', ?, ?)
TxInsertCompact(t, body, now) ==
    [t EXCEPT !.entries = @ \cup {[id |-> t.seq + 1, user_id |-> 0,
                                    entry_type |-> "daily_compact",
                                    content |-> body, created_at |-> now]},
              !.seq = @ + 1]

\* A faulty delete that ignores the kind of the entry.
TxDeleteDay(t, day) ==
    [t EXCEPT !.entries = {e \in @ : UTCDate(e.created_at) # day}]

\* DELETE FROM entries WHERE date(created_at) = ? AND entry_type = 'normal'
TxDeleteNormal(t, day) ==
    [t EXCEPT !.entries = {e \in @ : ~(UTCDate(e.created_at) = day
                                        /\ e.entry_type = "normal")}]

\* A faulty ledger insert that records nothing.
TxInsertLedgerLost(t, day, now) == t

\* A faulty ledger insert that overwrites the table with the new row.
TxInsertLedgerReplacing(t, day, now) ==
    [t EXCEPT !.compactions = {[day |-> day, ran_at |-> now]}]

\* INSERT INTO compactions(day, ran_at) VALUES(?, ?)
TxInsertLedger(t, day, now) ==
    [t EXCEPT !.compactions = @ \cup {[day |-> day, ran_at |-> now]}]

\* fmt.Sprintf("day=%s merged=%d", day, len(entries))
CompactMetadata(day, n) == <<"day=", ToString(day), " merged=", ToString(n)>>

\* A faulty compaction that writes no audit record.
TxInsertAuditMissing(t, day, n, now) == t

\* INSERT INTO action_logs(...) VALUES('system', 'scheduler', 'daily_compact', ?, ?)
TxInsertAudit(t, day, n, now) ==
    [t EXCEPT !.action_logs = Append(@,
        [actor_type |-> "system", actor_username |-> "scheduler",
         action |-> "daily_compact", metadata |-> CompactMetadata(day, n)])]

\* The tables after tx.Commit(): the transaction's view.
AfterCommit(t) ==
    [entries |-> t.entries, seq |-> t.seq, compactions |-> t.compactions,
     action_logs |-> t.action_logs]

\* A faulty rollback that keeps the transaction's work.
AfterRollbackKeeping(t) ==
    [entries |-> t.entries, seq |-> t.seq, compactions |-> t.compactions,
     action_logs |-> t.action_logs]

\* The tables after tx.Rollback(): nothing of the transaction's work.
AfterRollback(t) ==
    [entries |-> entries, seq |-> seq, compactions |-> compactions,
     action_logs |-> action_logs]

(* ------------------------------- frames ------------------------------- *)

IdleFrame ==
    [pc |-> "idle", day |-> 0, err |-> "nil", src |-> <<>>, cid |-> 0]

CallFrame(day) ==
    [pc |-> "lock", day |-> day, err |-> "nil", src |-> <<>>, cid |-> 0]

IdleHandler ==
    [pc |-> "idle", kind |-> "none", user |-> 0, body |-> <<>>, now |-> 0, id |-> 0,
     limit |-> 0]

\* No response written (code 0), and the responses of the API.
NoResp == [code |-> 0, msg |-> "", id |-> 0, day |-> 0, entries |-> <<>>]

\* jsonErr(w, code, msg)
ErrResp(code, msg) == [NoResp EXCEPT !.code = code, !.msg = msg]

\* NewIntegrationDispatcher(logger): no integration registered; Notify is
\* not running (pc), and the integrations have been called for no event.
NewIntegrationDispatcher ==
    [integrations |-> <<>>, pc |-> "idle", ranged |-> <<>>, i |-> 0,
     evt |-> "none", calls |-> <<>>, log |-> <<>>]

Init ==
    /\ clock = NextInstant(0)
    /\ tz \in TZOffsets
    /\ users = {[id |-> u.id, username |-> u.username, role |-> "member"] : u \in Users}
    /\ boot = [b \in Boots |-> IdleBoot]
    /\ entries = {}
    /\ seq = 0
    /\ compactions = {}
    /\ action_logs = <<>>
    /\ writeLocked = FALSE
    /\ compactMu = "none"
    /\ tx = NoTx
    /\ sched = [pc |-> "wait", day |-> 0, hour |-> 0]
    /\ cd = [p \in Callers |-> IdleFrame]
    /\ hs = [h \in Handlers |-> IdleHandler]
    /\ resp = [h \in Handlers |-> NoResp]
    /\ merges = <<>>
    /\ run = "serving"
    /\ disp = NewIntegrationDispatcher

(* ------------------------------- clock -------------------------------- *)

\* Wall-clock time passes.
Advance ==
    /\ \E x \in Instants : x > clock
    /\ clock' = NextInstant(clock)
    /\ UNCHANGED << tz, users, boot, disp, run, entries, seq, compactions, action_logs, writeLocked,
                    compactMu, tx, sched, cd, hs, resp, merges >>

(* ----------------------------- scheduler ------------------------------ *)

\* A faulty threshold test that lets every tick through.
EligibleAlways(now) == TRUE

\* if now.Hour() < 17 { continue }
Eligible(now) == LocalHour(now) >= CompactHour

\* A faulty loop that catches up: it takes the oldest day up to today that
\* has no compactions row.
TickCatchingUp ==
    /\ sched.pc = "wait"
    /\ IF Eligible(clock)
       THEN LET missing == {d \in 0..LocalDay(clock) : ~HasRow(compactions, d)}
                day == IF missing = {} THEN LocalDay(clock)
                       ELSE CHOOSE d \in missing : \A e \in missing : d <= e
            IN  sched' = [pc |-> "check", day |-> day, hour |-> LocalHour(clock)]
       ELSE sched' = sched
    /\ UNCHANGED << clock, tz, users, boot, disp, run, entries, seq, compactions, action_logs,
                    writeLocked, compactMu, tx, cd, hs, resp, merges >>

\* compactionLoop, case <-ticker.C: now := time.Now(); below the threshold
\* hour the tick does nothing, otherwise day := now.Format("2006-01-02").
Tick ==
    /\ sched.pc = "wait"
    /\ IF Eligible(clock)
       THEN sched' = [pc |-> "check", day |-> LocalDay(clock),
                      hour |-> LocalHour(clock)]
       ELSE sched' = sched
    /\ UNCHANGED << clock, tz, users, boot, disp, run, entries, seq, compactions, action_logs,
                    writeLocked, compactMu, tx, cd, hs, resp, merges >>

\* A faulty loop that calls compactDay without looking at the ledger.
AlreadyRanCheckBlind ==
    /\ sched.pc = "check"
    /\ sched' = [sched EXCEPT !.pc = "in"]
    /\ cd' = [cd EXCEPT ![Sched] = CallFrame(sched.day)]
    /\ UNCHANGED << clock, tz, users, boot, disp, run, entries, seq, compactions, action_logs,
                    writeLocked, compactMu, tx, hs, resp, merges >>

\* compactionAlreadyRan(day) and the loop's use of its result: an error is
\* logged, a found row ends the tick, otherwise compactDay(day) is called.
AlreadyRanCheck ==
    /\ sched.pc = "check"
    /\ ConnFree
    /\ \/ /\ sched' = [sched EXCEPT !.pc = "checkerr"]
          /\ cd' = cd
       \/ /\ HasRow(compactions, sched.day)
          /\ sched' = [pc |-> "wait", day |-> 0, hour |-> 0]
          /\ cd' = cd
       \/ /\ ~HasRow(compactions, sched.day)
          /\ sched' = [sched EXCEPT !.pc = "in"]
          /\ cd' = [cd EXCEPT ![Sched] = CallFrame(sched.day)]
    /\ UNCHANGED << clock, tz, users, boot, disp, run, entries, seq, compactions, action_logs,
                    writeLocked, compactMu, tx, hs, resp, merges >>

\* A faulty loop that logs the error of the ledger check and goes on to
\* call compactDay.
CheckErrorCalling ==
    /\ sched.pc = "checkerr"
    /\ sched' = [sched EXCEPT !.pc = "in"]
    /\ cd' = [cd EXCEPT ![Sched] = CallFrame(sched.day)]
    /\ UNCHANGED << clock, tz, users, boot, disp, run, entries, seq, compactions, action_logs,
                    writeLocked, compactMu, tx, hs, resp, merges >>

\* if err != nil { logger.Printf("event=compaction_check_error ..."); continue }
CheckError ==
    /\ sched.pc = "checkerr"
    /\ sched' = [pc |-> "wait", day |-> 0, hour |-> 0]
    /\ UNCHANGED << clock, tz, users, boot, disp, run, entries, seq, compactions, action_logs,
                    writeLocked, compactMu, tx, cd, hs, resp, merges >>

\* A faulty loop that calls compactDay again at once when it has failed.
SchedReturnRetrying ==
    /\ sched.pc = "in"
    /\ cd[Sched].pc = "ret"
    /\ IF cd[Sched].err # "nil"
       THEN /\ sched' = sched
            /\ cd' = [cd EXCEPT ![Sched] = CallFrame(sched.day)]
       ELSE /\ sched' = [pc |-> "wait", day |-> 0, hour |-> 0]
            /\ cd' = [cd EXCEPT ![Sched] = IdleFrame]
    /\ UNCHANGED << clock, tz, users, boot, disp, run, entries, seq, compactions, action_logs,
                    writeLocked, compactMu, tx, hs, resp, merges >>

\* A faulty loop that keeps the day it last worked on between ticks.
SchedReturnRemembering ==
    /\ sched.pc = "in"
    /\ cd[Sched].pc = "ret"
    /\ sched' = [sched EXCEPT !.pc = "wait"]
    /\ cd' = [cd EXCEPT ![Sched] = IdleFrame]
    /\ UNCHANGED << clock, tz, users, boot, disp, run, entries, seq, compactions, action_logs,
                    writeLocked, compactMu, tx, hs, resp, merges >>

\* compactDay has returned to the loop: a failure is logged, and the loop
\* waits for the next tick.
SchedReturn ==
    /\ sched.pc = "in"
    /\ cd[Sched].pc = "ret"
    /\ sched' = [pc |-> "wait", day |-> 0, hour |-> 0]
    /\ cd' = [cd EXCEPT ![Sched] = IdleFrame]
    /\ UNCHANGED << clock, tz, users, boot, disp, run, entries, seq, compactions, action_logs,
                    writeLocked, compactMu, tx, hs, resp, merges >>

(* ----------------------------- compactDay ---------------------------- *)

\* The variables compactDay never touches.
cdframe == << clock, tz, users, boot, disp, run, sched, hs, resp >>

OwnsTx(p) == tx.active /\ tx.owner = p

\* A non-blocking variant: TryLock, and an 'already running' error when
\* the mutex is held.
CdLockTry(p) ==
    /\ cd[p].pc = "lock"
    /\ IF compactMu = "none"
       THEN /\ compactMu' = p
            /\ cd' = [cd EXCEPT ![p].pc = "gate"]
       ELSE /\ compactMu' = compactMu
            /\ cd' = [cd EXCEPT ![p].pc = "ret", ![p].err = "running"]
    /\ UNCHANGED << cdframe, dbvars, writeLocked, tx, merges >>

\* A faulty variant that enters without holding the mutex.
CdLockUnguarded(p) ==
    /\ cd[p].pc = "lock"
    /\ compactMu' = p
    /\ cd' = [cd EXCEPT ![p].pc = "gate"]
    /\ UNCHANGED << cdframe, dbvars, writeLocked, tx, merges >>

\* a.compactMu.Lock()
CdLock(p) ==
    /\ cd[p].pc = "lock"
    /\ compactMu = "none"
    /\ compactMu' = p
    /\ cd' = [cd EXCEPT ![p].pc = "gate"]
    /\ UNCHANGED << cdframe, dbvars, writeLocked, tx, merges >>

\* A faulty variant that leaves the gate open.
CdGateSkipped(p) ==
    /\ cd[p].pc = "gate"
    /\ cd' = [cd EXCEPT ![p].pc = "begin"]
    /\ UNCHANGED << cdframe, dbvars, writeLocked, compactMu, tx, merges >>

\* a.writeLocked.Store(true)
CdGate(p) ==
    /\ cd[p].pc = "gate"
    /\ writeLocked' = TRUE
    /\ cd' = [cd EXCEPT ![p].pc = "begin"]
    /\ UNCHANGED << cdframe, dbvars, compactMu, tx, merges >>

\* tx, err := a.db.Begin(): on an error only the gate and the mutex are
\* released (the rollback is not yet deferred).
CdBegin(p) ==
    /\ cd[p].pc = "begin"
    /\ ConnFree
    /\ \/ /\ tx' = TxBegin(p)
          /\ cd' = [cd EXCEPT ![p].pc = "check"]
       \/ /\ tx' = tx
          /\ cd' = [cd EXCEPT ![p].pc = "ungate", ![p].err = "io"]
    /\ UNCHANGED << cdframe, dbvars, writeLocked, compactMu, merges >>

\* The ledger re-check inside the transaction: a found row returns nil.
CdCheck(p) ==
    /\ cd[p].pc = "check"
    /\ OwnsTx(p)
    /\ IF HasRow(tx.compactions, cd[p].day)
       THEN cd' = [cd EXCEPT ![p].pc = "rollback", ![p].err = "nil"]
       ELSE cd' = [cd EXCEPT ![p].pc = "read"]
    /\ UNCHANGED << cdframe, dbvars, writeLocked, compactMu, tx, merges >>

\* A faulty variant that builds a compact entry also from no entries.
CdReadThenInsert(p) ==
    /\ cd[p].pc = "read"
    /\ OwnsTx(p)
    /\ cd' = [cd EXCEPT ![p].src = SelectNormal(tx.entries, cd[p].day),
                        ![p].pc = "insert"]
    /\ UNCHANGED << cdframe, dbvars, writeLocked, compactMu, tx, merges >>

\* The SELECT of the day's normal entries and the rows loop.
CdRead(p) ==
    /\ cd[p].pc = "read"
    /\ OwnsTx(p)
    /\ LET src == SelectNormal(tx.entries, cd[p].day)
       IN  cd' = [cd EXCEPT ![p].src = src,
                            ![p].pc = IF Len(src) > 0 THEN "insert" ELSE "ledger"]
    /\ UNCHANGED << cdframe, dbvars, writeLocked, compactMu, tx, merges >>

\* if len(entries) > 0: build the body and insert the daily_compact entry.
CdInsert(p) ==
    /\ cd[p].pc = "insert"
    /\ OwnsTx(p)
    /\ tx' = TxInsertCompact(tx, CompactBody(cd[p].day, cd[p].src), nowUTC)
    /\ cd' = [cd EXCEPT ![p].pc = "delete", ![p].cid = tx.seq + 1]
    /\ UNCHANGED << cdframe, dbvars, writeLocked, compactMu, merges >>

\* ...and delete the day's normal entries.
CdDelete(p) ==
    /\ cd[p].pc = "delete"
    /\ OwnsTx(p)
    /\ tx' = TxDeleteNormal(tx, cd[p].day)
    /\ cd' = [cd EXCEPT ![p].pc = "ledger"]
    /\ UNCHANGED << cdframe, dbvars, writeLocked, compactMu, merges >>

\* The ledger row; day is the table's PRIMARY KEY.
CdLedger(p) ==
    /\ cd[p].pc = "ledger"
    /\ OwnsTx(p)
    /\ IF HasRow(tx.compactions, cd[p].day)
       THEN /\ tx' = tx
            /\ cd' = [cd EXCEPT ![p].pc = "rollback", ![p].err = "constraint"]
       ELSE /\ tx' = TxInsertLedger(tx, cd[p].day, nowUTC)
            /\ cd' = [cd EXCEPT ![p].pc = "audit"]
    /\ UNCHANGED << cdframe, dbvars, writeLocked, compactMu, merges >>

\* A faulty variant that writes the audit record only when entries were
\* merged.
CdAuditOnlyWhenMerged(p) ==
    /\ cd[p].pc = "audit"
    /\ OwnsTx(p)
    /\ tx' = IF Len(cd[p].src) > 0
             THEN TxInsertAudit(tx, cd[p].day, Len(cd[p].src), nowUTC)
             ELSE tx
    /\ cd' = [cd EXCEPT ![p].pc = "commit"]
    /\ UNCHANGED << cdframe, dbvars, writeLocked, compactMu, merges >>

\* The audit record of the compaction.
CdAudit(p) ==
    /\ cd[p].pc = "audit"
    /\ OwnsTx(p)
    /\ tx' = TxInsertAudit(tx, cd[p].day, Len(cd[p].src), nowUTC)
    /\ cd' = [cd EXCEPT ![p].pc = "commit"]
    /\ UNCHANGED << cdframe, dbvars, writeLocked, compactMu, merges >>

\* tx.Commit() succeeds: the transaction's view becomes the tables and the
\* connection returns to the pool.
CdCommit(p) ==
    /\ cd[p].pc = "commit"
    /\ OwnsTx(p)
    /\ entries' = AfterCommit(tx).entries
    /\ seq' = AfterCommit(tx).seq
    /\ compactions' = AfterCommit(tx).compactions
    /\ action_logs' = AfterCommit(tx).action_logs
    /\ tx' = NoTx
    /\ merges' = Append(merges, [day |-> cd[p].day, cid |-> cd[p].cid, src |-> cd[p].src])
    /\ cd' = [cd EXCEPT ![p].pc = "rollback", ![p].err = "nil"]
    /\ UNCHANGED << cdframe, writeLocked, compactMu >>

\* A statement of the transaction (the ledger check, the SELECT, an INSERT,
\* the DELETE, the Commit) returns an error: compactDay returns it.
CdStmtFail(p) ==
    /\ cd[p].pc \in {"check", "read", "insert", "delete", "ledger", "audit", "commit"}
    /\ OwnsTx(p)
    /\ cd' = [cd EXCEPT ![p].pc = "rollback", ![p].err = "io"]
    /\ UNCHANGED << cdframe, dbvars, writeLocked, compactMu, tx, merges >>

\* defer func() { _ = tx.Rollback() }(): undoes an open transaction and
\* frees the connection; after a Commit it does nothing.
CdRollback(p) ==
    /\ cd[p].pc = "rollback"
    /\ IF OwnsTx(p)
       THEN /\ entries' = AfterRollback(tx).entries
            /\ seq' = AfterRollback(tx).seq
            /\ compactions' = AfterRollback(tx).compactions
            /\ action_logs' = AfterRollback(tx).action_logs
            /\ tx' = NoTx
       ELSE UNCHANGED << dbvars, tx >>
    /\ cd' = [cd EXCEPT ![p].pc = "ungate"]
    /\ UNCHANGED << cdframe, writeLocked, compactMu, merges >>

\* A faulty exit path that leaves the gate as it is.
CdUngateSkipped(p) ==
    /\ cd[p].pc = "ungate"
    /\ cd' = [cd EXCEPT ![p].pc = "unlock"]
    /\ UNCHANGED << cdframe, dbvars, writeLocked, compactMu, tx, merges >>

\* The deferred calls in the other order: the mutex is released first and
\* the gate reopened after it, on the way back to the caller.
CdUngateAfterUnlock(p) ==
    /\ \/ /\ cd[p].pc = "ungate"
          /\ compactMu' = "none"
          /\ writeLocked' = writeLocked
          /\ cd' = [cd EXCEPT ![p].pc = "reopen"]
       \/ /\ cd[p].pc = "reopen"
          /\ compactMu' = compactMu
          /\ writeLocked' = FALSE
          /\ cd' = [cd EXCEPT ![p].pc = "ret"]
    /\ UNCHANGED << cdframe, dbvars, tx, merges >>

\* defer a.writeLocked.Store(false)
CdUngate(p) ==
    /\ cd[p].pc = "ungate"
    /\ writeLocked' = FALSE
    /\ cd' = [cd EXCEPT ![p].pc = "unlock"]
    /\ UNCHANGED << cdframe, dbvars, compactMu, tx, merges >>

\* defer a.compactMu.Unlock(), and the return to the caller.
CdUnlock(p) ==
    /\ cd[p].pc = "unlock"
    /\ compactMu' = "none"
    /\ cd' = [cd EXCEPT ![p].pc = "ret"]
    /\ UNCHANGED << cdframe, dbvars, writeLocked, tx, merges >>

CompactDay(p) ==
    \/ CdLock(p) \/ CdGate(p) \/ CdBegin(p) \/ CdCheck(p) \/ CdRead(p)
    \/ CdInsert(p) \/ CdDelete(p) \/ CdLedger(p) \/ CdAudit(p) \/ CdCommit(p)
    \/ CdStmtFail(p) \/ CdRollback(p) \/ CdUngate(p) \/ CdUnlock(p)

(* ------------------------------ handlers ------------------------------ *)

\* The variables a handler never touches.
hframe == << clock, tz, users, boot, disp, run, compactions, writeLocked, compactMu, tx, sched, cd, merges >>

\* SELECT id, username FROM users WHERE token_hash = ?
AuthUser(token) ==
    IF \E u \in Users : u.token = token
    THEN (CHOOSE u \in Users : u.token = token).id
    ELSE 0

\* logAction: INSERT INTO action_logs(...) VALUES(?, ?, ?, ?, ?).  The row's
\* created_at column, which no statement of the program reads, is left out
\* of the rows of action_logs.
LogAction(logs, actorType, actorUsername, action, metadata, now) ==
    Append(logs, [actor_type |-> actorType, actor_username |-> actorUsername,
                  action |-> action, metadata |-> metadata])

\* fmt.Sprintf("entry_id=%d size=%d", id, len(req.Content))
CreateMetadata(id, n) == <<"entry_id=", ToString(id), " size=", ToString(n)>>

\* fmt.Sprintf("day=%s limit=%d", day, limit)
ListMetadata(day, limit) == <<"day=", ToString(day), " limit=", ToString(limit)>>

ApiLogRows(logs) == Cardinality({i \in 1..Len(logs) : logs[i].actor_type = "api_user"})

\* The tables hold room for another request's rows (the model's bound).
Room == ApiLogRows(action_logs) < MaxLogs

\* POST /api/entries arrives: withAuth resolves the token with a query on
\* the pooled connection; no user (or any error) is a 401.
HStartFrom(h, bodies) ==
    /\ hs[h].pc = "idle"
    /\ Room
    /\ ConnFree
    /\ \E token \in Tokens :
         LET uid == AuthUser(token) IN
         \/ /\ uid = 0
            /\ hs' = [hs EXCEPT ![h] = [IdleHandler EXCEPT !.pc = "done", !.kind = "create"]]
            /\ resp' = [resp EXCEPT ![h] = ErrResp(401, "unauthorized")]
         \/ /\ uid # 0
            /\ \E body \in bodies :
                 hs' = [hs EXCEPT ![h] = [IdleHandler EXCEPT !.pc = "gate",
                           !.kind = "create", !.user = uid, !.body = body]]
            /\ resp' = resp
    /\ UNCHANGED << hframe, entries, seq, action_logs >>

\* POST /api/entries with one of the usual bodies.
HStart(h) == HStartFrom(h, Bodies)

\* A faulty handler that does not consult the gate.
GateIgnored == FALSE

\* a.writeLocked.Load()
GateClosed == writeLocked

\* A faulty handler that checks the trimmed content but stores the content
\* as submitted.
HGateUntrimmed(h) ==
    /\ hs[h].pc = "gate"
    /\ LET content == TrimSpace(hs[h].body) IN
       IF GateClosed
       THEN /\ resp' = [resp EXCEPT ![h] = ErrResp(423,
                           "writes are temporarily locked for daily compaction")]
            /\ hs' = [hs EXCEPT ![h].pc = "done"]
       ELSE IF hs[h].body = BadJSON
       THEN /\ resp' = [resp EXCEPT ![h] = ErrResp(400, "invalid json")]
            /\ hs' = [hs EXCEPT ![h].pc = "done"]
       ELSE IF content = <<>>
       THEN /\ resp' = [resp EXCEPT ![h] = ErrResp(400, "content is required")]
            /\ hs' = [hs EXCEPT ![h].pc = "done"]
       ELSE IF Len(content) > MaxContentLen
       THEN /\ resp' = [resp EXCEPT ![h] = ErrResp(400, "content too large")]
            /\ hs' = [hs EXCEPT ![h].pc = "done"]
       ELSE /\ resp' = resp
            /\ hs' = [hs EXCEPT ![h].pc = "insert", ![h].now = nowUTC]
    /\ UNCHANGED << hframe, entries, seq, action_logs >>

\* A faulty handler that decodes the body before it looks at the gate.
HGateDecodingFirst(h) ==
    /\ hs[h].pc = "gate"
    /\ LET content == TrimSpace(hs[h].body) IN
       IF hs[h].body = BadJSON
       THEN /\ resp' = [resp EXCEPT ![h] = ErrResp(400, "invalid json")]
            /\ hs' = [hs EXCEPT ![h].pc = "done"]
       ELSE IF GateClosed
       THEN /\ resp' = [resp EXCEPT ![h] = ErrResp(423,
                           "writes are temporarily locked for daily compaction")]
            /\ hs' = [hs EXCEPT ![h].pc = "done"]
       ELSE IF content = <<>>
       THEN /\ resp' = [resp EXCEPT ![h] = ErrResp(400, "content is required")]
            /\ hs' = [hs EXCEPT ![h].pc = "done"]
       ELSE IF Len(content) > MaxContentLen
       THEN /\ resp' = [resp EXCEPT ![h] = ErrResp(400, "content too large")]
            /\ hs' = [hs EXCEPT ![h].pc = "done"]
       ELSE /\ resp' = resp
            /\ hs' = [hs EXCEPT ![h].pc = "insert", ![h].body = content,
                                ![h].now = nowUTC]
    /\ UNCHANGED << hframe, entries, seq, action_logs >>

\* A faulty handler that writes an action_logs row for a request it turns
\* away at the gate.
HGateLoggingRejects(h) ==
    /\ hs[h].pc = "gate"
    /\ LET content == TrimSpace(hs[h].body) IN
       IF GateClosed
       THEN /\ resp' = [resp EXCEPT ![h] = ErrResp(423,
                           "writes are temporarily locked for daily compaction")]
            /\ hs' = [hs EXCEPT ![h].pc = "done"]
            /\ action_logs' = LogAction(action_logs, "api_user", UsernameOf(hs[h].user),
                                        "create_entry", <<"locked">>, nowUTC)
       ELSE IF hs[h].body = BadJSON
       THEN /\ resp' = [resp EXCEPT ![h] = ErrResp(400, "invalid json")]
            /\ hs' = [hs EXCEPT ![h].pc = "done"]
            /\ action_logs' = action_logs
       ELSE IF content = <<>>
       THEN /\ resp' = [resp EXCEPT ![h] = ErrResp(400, "content is required")]
            /\ hs' = [hs EXCEPT ![h].pc = "done"]
            /\ action_logs' = action_logs
       ELSE IF Len(content) > MaxContentLen
       THEN /\ resp' = [resp EXCEPT ![h] = ErrResp(400, "content too large")]
            /\ hs' = [hs EXCEPT ![h].pc = "done"]
            /\ action_logs' = action_logs
       ELSE /\ resp' = resp
            /\ hs' = [hs EXCEPT ![h].pc = "insert", ![h].body = content,
                                ![h].now = nowUTC]
            /\ action_logs' = action_logs
    /\ UNCHANGED << hframe, entries, seq >>

\* handleCreateEntry up to the INSERT's arguments: the gate, the JSON body,
\* the trimmed content, its size, and nowUTC().
HGate(h) ==
    /\ hs[h].pc = "gate"
    /\ LET content == TrimSpace(hs[h].body) IN
       IF GateClosed
       THEN /\ resp' = [resp EXCEPT ![h] = ErrResp(423,
                           "writes are temporarily locked for daily compaction")]
            /\ hs' = [hs EXCEPT ![h].pc = "done"]
       ELSE IF hs[h].body = BadJSON
       THEN /\ resp' = [resp EXCEPT ![h] = ErrResp(400, "invalid json")]
            /\ hs' = [hs EXCEPT ![h].pc = "done"]
       ELSE IF content = <<>>
       THEN /\ resp' = [resp EXCEPT ![h] = ErrResp(400, "content is required")]
            /\ hs' = [hs EXCEPT ![h].pc = "done"]
       ELSE IF Len(content) > MaxContentLen
       THEN /\ resp' = [resp EXCEPT ![h] = ErrResp(400, "content too large")]
            /\ hs' = [hs EXCEPT ![h].pc = "done"]
       ELSE /\ resp' = resp
            /\ hs' = [hs EXCEPT ![h].pc = "insert", ![h].body = content,
                                ![h].now = nowUTC]
    /\ UNCHANGED << hframe, entries, seq, action_logs >>

\* A faulty pool with a second connection: the INSERT does not wait for
\* the transaction.
HInsertUnpooled(h) ==
    /\ hs[h].pc = "insert"
    /\ \/ /\ entries' = entries \cup {[id |-> seq + 1, user_id |-> hs[h].user,
                                        entry_type |-> "normal",
                                        content |-> hs[h].body,
                                        created_at |-> hs[h].now]}
          /\ seq' = seq + 1
          /\ action_logs' = LogAction(action_logs, "api_user",
                    UsernameOf(hs[h].user), "create_entry",
                    CreateMetadata(seq + 1, Len(hs[h].body)), nowUTC)
          /\ hs' = [hs EXCEPT ![h].pc = "done", ![h].id = seq + 1]
          /\ resp' = [resp EXCEPT ![h] = [NoResp EXCEPT !.code = 201,
                                            !.msg = "created", !.id = seq + 1]]
       \/ /\ UNCHANGED << entries, seq, action_logs >>
          /\ hs' = [hs EXCEPT ![h].pc = "done"]
          /\ resp' = [resp EXCEPT ![h] = ErrResp(500, "failed to store entry")]
    /\ UNCHANGED hframe

\* The INSERT of the normal entry once the connection is free (a failure is
\* a 500), then logAction "create_entry" and the 201.  A failure of
\* logAction's own INSERT, which the handlers drop, is not modelled.
HInsert(h) ==
    /\ hs[h].pc = "insert"
    /\ ConnFree
    /\ \/ /\ entries' = entries \cup {[id |-> seq + 1, user_id |-> hs[h].user,
                                        entry_type |-> "normal",
                                        content |-> hs[h].body,
                                        created_at |-> hs[h].now]}
          /\ seq' = seq + 1
          /\ action_logs' = LogAction(action_logs, "api_user",
                    UsernameOf(hs[h].user), "create_entry",
                    CreateMetadata(seq + 1, Len(hs[h].body)), nowUTC)
          /\ hs' = [hs EXCEPT ![h].pc = "done", ![h].id = seq + 1]
          /\ resp' = [resp EXCEPT ![h] = [NoResp EXCEPT !.code = 201,
                                            !.msg = "created", !.id = seq + 1]]
       \/ /\ UNCHANGED << entries, seq, action_logs >>
          /\ hs' = [hs EXCEPT ![h].pc = "done"]
          /\ resp' = [resp EXCEPT ![h] = ErrResp(500, "failed to store entry")]
    /\ UNCHANGED hframe

\* GET /api/entries (day defaults to the local date): withAuth, the check
\* of the day parameter (400), the limit, the SELECT and the rows loop (a
\* failure is a 500), logAction "list_entries" and the 200 with the
\* entries.  The request is taken up while action_logs holds fewer than n
\* rows of requests.
HListWithin(h, n) ==
    /\ hs[h].pc = "idle"
    /\ ApiLogRows(action_logs) < n
    /\ ConnFree
    /\ \E token \in Tokens, day \in {UTCDate(clock), LocalDay(clock)},
          limit \in Limits :
         LET uid == AuthUser(token) IN
         /\ \/ /\ uid = 0
               /\ resp' = [resp EXCEPT ![h] = ErrResp(401, "unauthorized")]
               /\ action_logs' = action_logs
            \/ /\ uid # 0
               /\ resp' = [resp EXCEPT ![h] = ErrResp(400, "day must be YYYY-MM-DD")]
               /\ action_logs' = action_logs
            \/ /\ uid # 0
               /\ resp' = [resp EXCEPT ![h] = ErrResp(500, "failed to query entries")]
               /\ action_logs' = action_logs
            \/ /\ uid # 0
               /\ resp' = [resp EXCEPT ![h] = [NoResp EXCEPT !.code = 200, !.day = day,
                              !.entries = SelectDay(entries, day, limit)]]
               /\ action_logs' = LogAction(action_logs, "api_user", UsernameOf(uid),
                         "list_entries", ListMetadata(day, limit), nowUTC)
         /\ hs' = [hs EXCEPT ![h] = [IdleHandler EXCEPT !.pc = "done", !.kind = "list",
                                       !.limit = limit]]
    /\ UNCHANGED << hframe, entries, seq >>

\* A faulty list handler that consults the gate as the create handler does.
HListGated(h) ==
    /\ hs[h].pc = "idle"
    /\ Room
    /\ ConnFree
    /\ \E token \in Tokens, day \in {UTCDate(clock), LocalDay(clock)},
          limit \in Limits :
         LET uid == AuthUser(token) IN
         /\ \/ /\ uid = 0
               /\ resp' = [resp EXCEPT ![h] = ErrResp(401, "unauthorized")]
               /\ action_logs' = action_logs
            \/ /\ uid # 0
               /\ writeLocked
               /\ resp' = [resp EXCEPT ![h] = ErrResp(423,
                              "writes are temporarily locked for daily compaction")]
               /\ action_logs' = action_logs
            \/ /\ uid # 0
               /\ ~writeLocked
               /\ resp' = [resp EXCEPT ![h] = ErrResp(400, "day must be YYYY-MM-DD")]
               /\ action_logs' = action_logs
            \/ /\ uid # 0
               /\ ~writeLocked
               /\ resp' = [resp EXCEPT ![h] = ErrResp(500, "failed to query entries")]
               /\ action_logs' = action_logs
            \/ /\ uid # 0
               /\ ~writeLocked
               /\ resp' = [resp EXCEPT ![h] = [NoResp EXCEPT !.code = 200, !.day = day,
                              !.entries = SelectDay(entries, day, limit)]]
               /\ action_logs' = LogAction(action_logs, "api_user", UsernameOf(uid),
                         "list_entries", ListMetadata(day, limit), nowUTC)
         /\ hs' = [hs EXCEPT ![h] = [IdleHandler EXCEPT !.pc = "done", !.kind = "list",
                                       !.limit = limit]]
    /\ UNCHANGED << hframe, entries, seq >>

\* GET /api/entries without parameters (the day defaults to the local
\* date, the limit to 200), statement by statement.  withAuth and
\* a.db.Query: the rows that come back keep the pooled connection.
HListQuery(h) ==
    /\ hs[h].pc = "idle"
    /\ Room
    /\ ConnFree
    /\ \E token \in Tokens :
         LET uid == AuthUser(token) IN
         \/ /\ uid = 0
            /\ resp' = [resp EXCEPT ![h] = ErrResp(401, "unauthorized")]
            /\ hs' = [hs EXCEPT ![h] = [IdleHandler EXCEPT !.pc = "done", !.kind = "list"]]
         \/ /\ uid # 0
            /\ resp' = [resp EXCEPT ![h] = ErrResp(500, "failed to query entries")]
            /\ hs' = [hs EXCEPT ![h] = [IdleHandler EXCEPT !.pc = "done", !.kind = "list"]]
         \/ /\ uid # 0
            /\ resp' = [resp EXCEPT ![h] = [NoResp EXCEPT !.day = LocalDay(clock),
                           !.entries = SelectDay(entries, LocalDay(clock), DefaultLimit)]]
            /\ hs' = [hs EXCEPT ![h] = [IdleHandler EXCEPT !.pc = "rows", !.kind = "list",
                                          !.user = uid, !.limit = DefaultLimit]]
    /\ UNCHANGED << hframe, entries, seq, action_logs >>

\* A faulty rows loop that calls logAction for the rows it reads: the
\* INSERT waits for the connection its own open rows hold.
HListRowsLogging(h) ==
    /\ hs[h].pc = "rows"
    /\ ConnFree
    /\ action_logs' = LogAction(action_logs, "api_user", UsernameOf(hs[h].user),
                                "list_entries", ListMetadata(resp[h].day, hs[h].limit),
                                nowUTC)
    /\ hs' = [hs EXCEPT ![h].pc = "log"]
    /\ UNCHANGED << hframe, entries, seq, resp >>

\* The rows loop: rows.Next() returns false at the end of the rows and
\* closes them, which gives the connection back; a Scan error is a 500
\* and the deferred rows.Close() gives it back.
HListRows(h) ==
    /\ hs[h].pc = "rows"
    /\ \/ /\ hs' = [hs EXCEPT ![h].pc = "log"]
          /\ resp' = resp
       \/ /\ hs' = [hs EXCEPT ![h].pc = "done"]
          /\ resp' = [resp EXCEPT ![h] = ErrResp(500, "failed to parse entries")]
    /\ UNCHANGED << hframe, entries, seq, action_logs >>

\* logAction "list_entries", once the connection is free, and the 200.
HListLog(h) ==
    /\ hs[h].pc = "log"
    /\ ConnFree
    /\ action_logs' = LogAction(action_logs, "api_user", UsernameOf(hs[h].user),
                                "list_entries", ListMetadata(resp[h].day, hs[h].limit),
                                nowUTC)
    /\ hs' = [hs EXCEPT ![h].pc = "done"]
    /\ resp' = [resp EXCEPT ![h].code = 200]
    /\ UNCHANGED << hframe, entries, seq >>

\* GET /api/entries, within the bound on requests.
HList(h) == HListWithin(h, MaxLogs)

\* GET /api/health: the 200 {"status":"ok"}, without authentication and
\* without the database.
HHealth(h) ==
    /\ hs[h].pc = "idle"
    /\ hs' = [hs EXCEPT ![h] = [IdleHandler EXCEPT !.pc = "done", !.kind = "health"]]
    /\ resp' = [resp EXCEPT ![h] = [NoResp EXCEPT !.code = 200, !.msg = "ok"]]
    /\ UNCHANGED << hframe, entries, seq, action_logs >>

\* A faulty whoami handler that reopens the gate when it answers.
HMeUnlocking(h) ==
    /\ hs[h].pc = "idle"
    /\ Room
    /\ ConnFree
    /\ \E token \in Tokens :
         LET uid == AuthUser(token) IN
         \/ /\ uid = 0
            /\ hs' = [hs EXCEPT ![h] = [IdleHandler EXCEPT !.pc = "done", !.kind = "me"]]
            /\ resp' = [resp EXCEPT ![h] = ErrResp(401, "unauthorized")]
            /\ action_logs' = action_logs
            /\ writeLocked' = writeLocked
         \/ /\ uid # 0
            /\ hs' = [hs EXCEPT ![h] = [IdleHandler EXCEPT !.pc = "done", !.kind = "me",
                                          !.user = uid]]
            /\ resp' = [resp EXCEPT ![h] = [NoResp EXCEPT !.code = 200, !.id = uid,
                                              !.msg = UsernameOf(uid)]]
            /\ action_logs' = LogAction(action_logs, "api_user", UsernameOf(uid),
                                        "whoami", <<"path=/api/me">>, nowUTC)
            /\ writeLocked' = FALSE
    /\ UNCHANGED << clock, tz, users, boot, disp, run, compactions, compactMu, tx, sched, cd, merges,
                    entries, seq >>

\* GET /api/me: withAuth (401), logAction "whoami" and the 200 with the
\* user's id and username.
HMe(h) ==
    /\ hs[h].pc = "idle"
    /\ Room
    /\ ConnFree
    /\ \E token \in Tokens :
         LET uid == AuthUser(token) IN
         \/ /\ uid = 0
            /\ hs' = [hs EXCEPT ![h] = [IdleHandler EXCEPT !.pc = "done", !.kind = "me"]]
            /\ resp' = [resp EXCEPT ![h] = ErrResp(401, "unauthorized")]
            /\ action_logs' = action_logs
         \/ /\ uid # 0
            /\ hs' = [hs EXCEPT ![h] = [IdleHandler EXCEPT !.pc = "done", !.kind = "me",
                                          !.user = uid]]
            /\ resp' = [resp EXCEPT ![h] = [NoResp EXCEPT !.code = 200, !.id = uid,
                                              !.msg = UsernameOf(uid)]]
            /\ action_logs' = LogAction(action_logs, "api_user", UsernameOf(uid),
                                        "whoami", <<"path=/api/me">>, nowUTC)
    /\ UNCHANGED << hframe, entries, seq >>

\* POST /api/admin/users (withAuth, withAdmin, handleAdminUsers): 401
\* without a user, 403 for a user who is no admin, 400 for a refused body,
\* else createUserWithRole's INSERT INTO users and the 201 that
\* adminCreateUserViaAPI expects.  The users table is the fixed Users of
\* the model; the new user makes no request in a run.
HAdminUsers(h) ==
    /\ hs[h].pc = "idle"
    /\ ConnFree
    /\ \E token \in Tokens :
         LET uid == AuthUser(token) IN
         \/ /\ uid = 0
            /\ hs' = [hs EXCEPT ![h] = [IdleHandler EXCEPT !.pc = "done", !.kind = "admin"]]
            /\ resp' = [resp EXCEPT ![h] = ErrResp(401, "unauthorized")]
         \/ /\ uid # 0
            /\ hs' = [hs EXCEPT ![h] = [IdleHandler EXCEPT !.pc = "done", !.kind = "admin",
                                          !.user = uid]]
            /\ \E code \in {201, 400, 403, 500} :
                  resp' = [resp EXCEPT ![h] = [NoResp EXCEPT !.code = code]]
    /\ UNCHANGED << hframe, entries, seq, action_logs >>

\* The response has been sent; the goroutine ends.
HDone(h) ==
    /\ hs[h].pc = "done"
    /\ hs' = [hs EXCEPT ![h] = IdleHandler]
    /\ resp' = [resp EXCEPT ![h] = NoResp]
    /\ UNCHANGED << hframe, entries, seq, action_logs >>

\* POST /api/entries.
CreateHandler(h) == HStart(h) \/ HGate(h) \/ HInsert(h) \/ HDone(h)

\* POST and GET /api/entries.
Handler(h) == CreateHandler(h) \/ HList(h)

(* ------------------------------ process ------------------------------- *)

\* A faulty store without a rollback journal: what an open transaction has
\* written so far survives the death of the process.
CrashKeepingWrites ==
    /\ writeLocked' = FALSE
    /\ compactMu' = "none"
    /\ entries' = IF tx.active THEN tx.entries ELSE entries
    /\ seq' = IF tx.active THEN tx.seq ELSE seq
    /\ compactions' = IF tx.active THEN tx.compactions ELSE compactions
    /\ action_logs' = IF tx.active THEN tx.action_logs ELSE action_logs
    /\ tx' = NoTx
    /\ sched' = [pc |-> "wait", day |-> 0, hour |-> 0]
    /\ cd' = [p \in Callers |-> IdleFrame]
    /\ hs' = [h \in Handlers |-> IdleHandler]
    /\ resp' = [h \in Handlers |-> NoResp]
    /\ UNCHANGED << clock, tz, users, boot, disp, run, merges >>

\* The process dies and is started again: memory is lost (the gate reopens,
\* the mutex is free, every goroutine is gone), an open transaction is
\* undone by SQLite, the tables stay as last committed.
Crash ==
    /\ writeLocked' = FALSE
    /\ compactMu' = "none"
    /\ tx' = NoTx
    /\ sched' = [pc |-> "wait", day |-> 0, hour |-> 0]
    /\ cd' = [p \in Callers |-> IdleFrame]
    /\ hs' = [h \in Handlers |-> IdleHandler]
    /\ resp' = [h \in Handlers |-> NoResp]
    /\ UNCHANGED << clock, tz, users, boot, disp, run, dbvars, merges >>

\* A direct call of compactDay for the UTC or the local date, and its return.
InvokeCall(p) ==
    /\ cd[p].pc = "idle"
    /\ \E day \in {UTCDate(clock), LocalDay(clock)} :
         cd' = [cd EXCEPT ![p] = CallFrame(day)]
    /\ UNCHANGED << clock, tz, users, boot, disp, run, dbvars, writeLocked, compactMu, tx, sched, hs,
                    resp, merges >>

InvokeReturn(p) ==
    /\ cd[p].pc = "ret"
    /\ cd' = [cd EXCEPT ![p] = IdleFrame]
    /\ UNCHANGED << clock, tz, users, boot, disp, run, dbvars, writeLocked, compactMu, tx, sched, hs,
                    resp, merges >>

\* The running server: the clock, the scheduler goroutine with its
\* compactDay calls, the request handlers, and crash/restart.
Next ==
    \/ Advance
    \/ Tick
    \/ AlreadyRanCheck
    \/ CheckError
    \/ SchedReturn
    \/ \E p \in {Sched} : CompactDay(p)
    \/ \E h \in Handlers : Handler(h)
    \/ Crash

Spec == Init /\ [][Next]_vars

\* The engine on its own, at one reading of the clock: compactDay called
\* directly by callers that may overlap, beside create-entry requests and
\* crashes.
NextEngine ==
    \/ \E p \in Invokers : InvokeCall(p) \/ InvokeReturn(p) \/ CompactDay(p)
    \/ \E h \in Handlers : CreateHandler(h)
    \/ Crash

SpecEngine == Init /\ [][NextEngine]_vars

\* runServe after the signal and the two servers' Shutdown (no request is
\* in flight): return nil runs the deferred cancel().
Cancel ==
    /\ run = "serving"
    /\ \A h \in Handlers : hs[h].pc = "idle"
    /\ run' = "cancelled"
    /\ UNCHANGED << clock, tz, users, boot, disp, dbvars, writeLocked, compactMu, tx, sched, cd, hs,
                    resp, merges >>

\* compactionLoop: case <-ctx.Done(): return.  (While the ticker has fired
\* too, select may take the tick: Tick stays enabled.)
LoopReturn ==
    /\ run = "cancelled"
    /\ sched.pc = "wait"
    /\ sched' = [pc |-> "returned", day |-> 0, hour |-> 0]
    /\ UNCHANGED << clock, tz, users, boot, disp, dbvars, writeLocked, compactMu, tx, cd, hs, resp,
                    merges, run >>

\* runServe's deferred db.Close() and the return of main: the process ends
\* and its goroutines with it, wherever they are; nothing waits for
\* compactionLoop.  An open transaction is never committed.
Exit ==
    /\ run = "cancelled"
    /\ run' = "exited"
    /\ writeLocked' = FALSE
    /\ compactMu' = "none"
    /\ tx' = NoTx
    /\ sched' = [pc |-> "returned", day |-> 0, hour |-> 0]
    /\ cd' = [p \in Callers |-> IdleFrame]
    /\ hs' = [h \in Handlers |-> IdleHandler]
    /\ resp' = [h \in Handlers |-> NoResp]
    /\ UNCHANGED << clock, tz, users, boot, disp, dbvars, merges >>

\* The server from its start to the end of the process: requests are taken
\* up until the shutdown.
NextStop ==
    \/ Advance
    \/ Tick
    \/ AlreadyRanCheck
    \/ CheckError
    \/ SchedReturn
    \/ \E p \in {Sched} : CompactDay(p)
    \/ \E h \in Handlers : run = "serving" /\ CreateHandler(h)
    \/ Cancel
    \/ LoopReturn
    \/ Exit

SpecStop == Init /\ [][NextStop]_vars

\* The create-entry route with every kind of body, beside one caller of
\* compactDay that closes and reopens the gate.
NextCreate ==
    \/ \E h \in Handlers : HStartFrom(h, Bodies \cup {LargeBody})
    \/ \E h \in Handlers : HGate(h) \/ HInsert(h) \/ HDone(h)
    \/ InvokeCall("m1")
    \/ InvokeReturn("m1")
    \/ CompactDay("m1")

SpecCreate == Init /\ [][NextCreate]_vars

(* ---------------------------- integrations --------------------------- *)

\* Add(integration): nil is ignored, anything else is appended.
Add(integration) ==
    /\ disp.pc = "idle"
    /\ Len(disp.integrations) < MaxIntegrations
    /\ IF integration = NilIntegration
       THEN disp' = disp
       ELSE disp' = [disp EXCEPT !.integrations = Append(@, integration)]
    /\ UNCHANGED << clock, tz, users, boot, dbvars, writeLocked, compactMu, tx, sched, cd, hs,
                    resp, merges, run >>

\* Notify(ctx, evt) is called: range evaluates d.integrations once.
NotifyCall(evt) ==
    /\ disp.pc = "idle"
    /\ disp' = [disp EXCEPT !.pc = "range", !.ranged = disp.integrations, !.i = 1,
                            !.evt = evt, !.calls = <<>>, !.log = <<>>]
    /\ UNCHANGED << clock, tz, users, boot, dbvars, writeLocked, compactMu, tx, sched, cd, hs,
                    resp, merges, run >>

\* A faulty loop body that returns from Notify at the first failure.
NotifyOneStopping ==
    /\ disp.pc = "range"
    /\ disp.i <= Len(disp.ranged)
    /\ \E err \in BOOLEAN :
         disp' = [disp EXCEPT
            !.calls = Append(@, [name |-> disp.ranged[disp.i], evt |-> disp.evt]),
            !.log = Append(@, [event |-> IF err THEN "integration_notify_failed"
                                              ELSE "integration_notify_ok",
                               name |-> disp.ranged[disp.i], type |-> disp.evt]),
            !.i = IF err THEN Len(disp.ranged) + 1 ELSE @ + 1]
    /\ UNCHANGED << clock, tz, users, boot, dbvars, writeLocked, compactMu, tx, sched, cd, hs,
                    resp, merges, run >>

\* The loop body: integration.Notify(ctx, evt) is called; an error is
\* logged and the loop continues, a success is logged.
NotifyOne ==
    /\ disp.pc = "range"
    /\ disp.i <= Len(disp.ranged)
    /\ \E err \in BOOLEAN :
         disp' = [disp EXCEPT
            !.calls = Append(@, [name |-> disp.ranged[disp.i], evt |-> disp.evt]),
            !.log = Append(@, [event |-> IF err THEN "integration_notify_failed"
                                              ELSE "integration_notify_ok",
                               name |-> disp.ranged[disp.i], type |-> disp.evt]),
            !.i = @ + 1]
    /\ UNCHANGED << clock, tz, users, boot, dbvars, writeLocked, compactMu, tx, sched, cd, hs,
                    resp, merges, run >>

\* The range is exhausted: Notify returns.
NotifyReturn ==
    /\ disp.pc = "range"
    /\ disp.i > Len(disp.ranged)
    /\ disp' = [disp EXCEPT !.pc = "idle"]
    /\ UNCHANGED << clock, tz, users, boot, dbvars, writeLocked, compactMu, tx, sched, cd, hs,
                    resp, merges, run >>

\* A dispatcher as its owner uses it: registrations, then events.
NextDispatch ==
    \/ \E x \in Integrations \cup {NilIntegration} : Add(x)
    \/ \E evt \in EventTypes : NotifyCall(evt)
    \/ NotifyOne
    \/ NotifyReturn

SpecDispatch == Init /\ [][NextDispatch]_vars

\* The entries API beside the scheduler: create requests, list requests (one
\* more than the create requests leave room for) and the scheduler's
\* compaction.
NextApi ==
    \/ Advance
    \/ Tick
    \/ AlreadyRanCheck
    \/ CheckError
    \/ SchedReturn
    \/ \E p \in {Sched} : CompactDay(p)
    \/ \E h \in Handlers : CreateHandler(h)
    \/ \E h \in Handlers : HListWithin(h, MaxLogs + 1)

SpecApi == Init /\ [][NextApi]_vars

\* Every route of the API mux beside the scheduler.
NextRoutes ==
    \/ Advance
    \/ Tick
    \/ AlreadyRanCheck
    \/ CheckError
    \/ SchedReturn
    \/ \E p \in {Sched} : CompactDay(p)
    \/ \E h \in Handlers : Handler(h)
    \/ \E h \in Handlers : HHealth(h) \/ HMe(h) \/ HAdminUsers(h)

SpecRoutes == Init /\ [][NextRoutes]_vars

\* created_at values of stored entries: two instants of day 0 and the
\* instant the clock shows (day 1).
TableTimes == {17, 18, NextInstant(0)}

\* The trimmed content posted for entry i.
TableContent(i) == <<"a", "\n", ToString(i)>>

\* The entries table after n create requests: ids are handed out in the
\* order of the INSERTs, each created_at is the nowUTC() of its request
\* (whole-unit resolution, so two entries can share it, and a request that
\* read the clock earlier can insert later), each with its action_logs row.
TableOf(f) ==
    { [id |-> i, user_id |-> f[i].user_id, entry_type |-> "normal",
       content |-> TableContent(i), created_at |-> f[i].created_at]
      : i \in DOMAIN f }

TableLogs(f) ==
    [i \in DOMAIN f |->
        [actor_type |-> "api_user", actor_username |-> UsernameOf(f[i].user_id),
         action |-> "create_entry",
         metadata |-> CreateMetadata(i, Len(TableContent(i)))]]

InitTable ==
    /\ clock = NextInstant(0)
    /\ tz \in TZOffsets
    /\ users = {[id |-> u.id, username |-> u.username, role |-> "member"] : u \in Users}
    /\ boot = [b \in Boots |-> IdleBoot]
    /\ \E n \in 0..MaxRows :
         \E f \in [1..n -> [user_id : {u.id : u \in Users}, created_at : TableTimes]] :
            /\ entries = TableOf(f)
            /\ seq = n
            /\ action_logs = TableLogs(f)
    /\ compactions = {}
    /\ writeLocked = FALSE
    /\ compactMu = "none"
    /\ tx = NoTx
    /\ sched = [pc |-> "wait", day |-> 0, hour |-> 0]
    /\ cd = [p \in Callers |-> IdleFrame]
    /\ hs = [h \in Handlers |-> IdleHandler]
    /\ resp = [h \in Handlers |-> NoResp]
    /\ merges = <<>>
    /\ run = "serving"
    /\ disp = NewIntegrationDispatcher

\* compactDay applied to a stored table: one caller, one call after the
\* other, for the UTC or the local date, with crash and restart.
NextTable ==
    \/ InvokeCall("m1")
    \/ InvokeReturn("m1")
    \/ CompactDay("m1")
    \/ Crash

SpecTable == InitTable /\ [][NextTable]_vars

\* A step in which a call made by the scheduler goroutine fails (the ledger
\* lookup of the loop, BeginTx, a statement or the commit of compactDay),
\* or in which the process is killed.
Failure ==
    \/ AlreadyRanCheck /\ sched'.pc = "checkerr"
    \/ CdBegin(Sched) /\ ~tx'.active
    \/ CdStmtFail(Sched)
    \/ Crash

\* The running server whose scheduler goroutine keeps running (the 30 s
\* ticker of compactionLoop fires again and again and the goroutine is
\* scheduled), in the runs where failures stop at some point.
SpecLive ==
    /\ Init /\ [][Next]_vars
    /\ WF_vars(Tick)
    /\ WF_vars(AlreadyRanCheck)
    /\ WF_vars(CheckError)
    /\ WF_vars(CompactDay(Sched))
    /\ WF_vars(SchedReturn)
    /\ <>[][~Failure]_vars

(* ----------------------------- properties ----------------------------- *)

\* The committed compactions of a day, in the history.
MergesOf(day) == {i \in 1..Len(merges) : merges[i].day = day}

Days == 0..MaxDay

\* C1: for every day D, whatever the sequence of compactDay(D) invocations
\* (one after the other, overlapping, or cut by a crash and restart), the
\* merge for D commits at most once: compactions holds at most one row for
\* D, and at most one daily_compact entry is made from D's normal entries.
C1_MergeCommitsAtMostOnce ==
    \A day \in Days :
        /\ Cardinality(MergesOf(day)) <= 1
        /\ Cardinality({r \in compactions : r.day = day}) <= 1
        /\ Cardinality({e \in entries : /\ e.entry_type = "daily_compact"
                                        /\ e.content[2] = ToString(day)}) <= 1

\* A day was merged into a daily_compact entry, an entry was posted on it
\* afterwards, and a later invocation for the day has returned without
\* merging again.
C1_Witness ==
    \E p \in Invokers, i \in 1..Len(merges) :
        /\ merges[i].day = cd[p].day
        /\ merges[i].cid # 0
        /\ cd[p].pc = "ret"
        /\ cd[p].err = "nil"
        /\ cd[p].src = <<>>
        /\ \E e \in entries : /\ e.entry_type = "normal"
                              /\ UTCDate(e.created_at) = cd[p].day

\* The step of invocation p is the successful tx.Commit().
CommitStep(p) ==
    /\ cd[p].pc = "commit"
    /\ cd'[p].pc = "rollback"
    /\ cd'[p].err = "nil"

\* The step of invocation p is its return to the caller with an error.
FailedReturn(p) ==
    /\ cd[p].pc = "unlock"
    /\ cd'[p].pc = "ret"
    /\ cd'[p].err # "nil"

\* C2: a compactDay(D) that fails at any step before its commit succeeds
\* (begin, ledger check, read, insert, delete, ledger insert, audit insert,
\* the commit itself) leaves entries, compactions and action_logs as they
\* were: no step of an invocation other than its successful commit changes
\* the tables, the error stays the invocation's result, and when it
\* returns the error every entry it read is still a normal entry, the
\* daily_compact entry it built does not exist and D has no compactions
\* row.
C2_FailureLeavesStoreUnchanged ==
    [][\A p \in Callers :
          /\ (cd'[p] # cd[p] /\ ~CommitStep(p)) => dbvars' = dbvars
          /\ (cd[p].err # "nil" /\ cd'[p].pc # "idle") => cd'[p].err = cd[p].err
          /\ FailedReturn(p) =>
                 /\ \A i \in 1..Len(cd[p].src) :
                        \E e \in entries' : /\ e.id = cd[p].src[i].ID
                                            /\ e.entry_type = "normal"
                                            /\ e.content = cd[p].src[i].Content
                 /\ ~\E e \in entries' : /\ e.id = cd[p].cid
                                         /\ e.entry_type = "daily_compact"
                 /\ cd[p].src # <<>> =>
                        /\ ~\E r \in compactions' : r.day = cd[p].day
                        /\ MergesOf(cd[p].day) = {}
      ]_vars

\* An invocation that had inserted the daily_compact entry in its
\* transaction has returned an error, and the entries it read are there.
C2_Witness ==
    \E p \in Callers :
        /\ cd[p].pc = "ret"
        /\ cd[p].err = "io"
        /\ cd[p].cid # 0
        /\ cd[p].src # <<>>
        /\ \A i \in 1..Len(cd[p].src) :
               \E e \in entries : e.id = cd[p].src[i].ID /\ e.entry_type = "normal"
        /\ ~\E r \in compactions : r.day = cd[p].day

\* C3: compactDay(D) invoked after an invocation for D has succeeded
\* returns success (nil, unless a call to the database itself fails) and
\* changes nothing: no step of it alters entries, compactions or
\* action_logs.
C3_SecondInvocationChangesNothing ==
    [][\A p \in Invokers :
          (MergesOf(cd[p].day) # {} /\ cd[p].pc # "idle" /\ cd'[p] # cd[p]) =>
              /\ dbvars' = dbvars
              /\ merges' = merges
              /\ cd'[p].err \in {"nil", "io"}
      ]_vars

\* An invocation for a day already merged (with entries) has returned nil
\* without reading anything.
C3_Witness ==
    \E p \in Invokers, i \in 1..Len(merges) :
        /\ merges[i].day = cd[p].day
        /\ merges[i].src # <<>>
        /\ cd[p].pc = "ret"
        /\ cd[p].err = "nil"
        /\ cd[p].src = <<>>
        /\ cd[p].cid = 0

\* C4: writeLocked is false whenever no compactDay invocation is in
\* progress: before the first one and after every return, by success, by
\* the already-compacted no-op or by an error at any step.
C4_GateOpenWhenIdle ==
    (\A p \in Callers : cd[p].pc \in {"idle", "lock", "ret"}) => ~writeLocked

\* Two invocations have returned, one of them with an error, and the gate
\* is open.
C4_Witness ==
    /\ \A p \in Invokers : cd[p].pc = "ret"
    /\ \E p \in Invokers : cd[p].err = "io"
    /\ \E p \in Invokers : cd[p].err = "nil"
    /\ merges # <<>>
    /\ ~writeLocked

\* C5: an authenticated POST /api/entries that finds the gate closed is
\* answered 423 Locked (not a server error) and inserts no entry and no
\* audit record, neither at the check nor before the handler ends.
C5_ClosedGateRejects ==
    [][\A h \in Handlers :
          /\ (hs[h].pc = "gate" /\ writeLocked /\ hs'[h].pc \notin {"gate", "idle"}) =>
                 /\ resp'[h].code = 423
                 /\ hs'[h].pc = "done"
                 /\ dbvars' = dbvars
          /\ (resp[h].code = 423 /\ hs'[h] # hs[h]) =>
                 /\ hs'[h].pc = "idle"
                 /\ dbvars' = dbvars
      ]_vars

\* A handler has answered 423 while a compaction holds the gate.
C5_Witness ==
    \E h \in Handlers :
        /\ resp[h].code = 423
        /\ hs[h].user # 0
        /\ writeLocked

\* compactDay is returning nil: its work is done and its deferred calls
\* (rollback, gate, mutex) are running.
ReturningNil(p) ==
    /\ cd[p].pc \in {"rollback", "ungate", "unlock"}
    /\ cd[p].err = "nil"
    /\ ~OwnsTx(p)

\* C6: whenever compactDay(D) returns success, also with create-entry
\* requests running beside it, day D has exactly one compactions row, no
\* normal entry, and zero or one daily_compact entry.
C6_SuccessLeavesDayMerged ==
    \A p \in Callers :
        ReturningNil(p) =>
            /\ Cardinality({r \in compactions : r.day = cd[p].day}) = 1
            /\ ~\E e \in entries : /\ e.entry_type = "normal"
                                   /\ UTCDate(e.created_at) = cd[p].day
            /\ Cardinality({e \in entries : /\ e.entry_type = "daily_compact"
                                            /\ UTCDate(e.created_at) = cd[p].day}) <= 1

\* The ids of the entries a list response carries.
ListedIds(r, type) ==
    {r.entries[i].id : i \in {j \in 1..Len(r.entries) : r.entries[j].entry_type = type}}

\* C7: a list-entries read for day D beside compactDay(D) sees the whole
\* state before the compaction or the whole state after it.  Once the
\* compaction of D has committed, the read returns none of the merged
\* entries and it returns the daily_compact entry: never that entry with
\* some of its sources, never the sources gone and the merged entry missing.
C7_ListSeesWholeCompaction ==
    [][\A h \in Handlers :
          (resp'[h].code = 200 /\ resp[h].code # 200) =>
              \A i \in 1..Len(merges) :
                  (merges[i].day = resp'[h].day /\ merges[i].src # <<>>) =>
                      /\ merges[i].cid \in ListedIds(resp'[h], "daily_compact")
                      /\ \A k \in 1..Len(merges[i].src) :
                             merges[i].src[k].ID \notin ListedIds(resp'[h], "normal")
      ]_vars

\* C8: for a day D with at least one normal entry, once compactDay(D) has
\* succeeded a list-entries query for D returns exactly one entry, of kind
\* daily_compact, whose body has one line per original entry in posting
\* order, and a compactions row for D exists; at whatever moment the
\* scheduler runs the compaction.
C8_ListAfterCompaction ==
    [][\A p \in Callers :
          (CommitStep(p) /\ SelectNormal(entries, cd[p].day) # <<>>) =>
              LET listed == SelectDay(entries', cd[p].day, DefaultLimit) IN
              /\ Len(listed) = 1
              /\ listed[1].entry_type = "daily_compact"
              /\ listed[1].content =
                     CompactBody(cd[p].day, SelectNormal(entries, cd[p].day))
              /\ \E r \in compactions' : r.day = cd[p].day
      ]_vars

\* C9: a create-entry request made once today's compaction (day D) is
\* done succeeds as a new normal entry under day D, leaves D's
\* daily_compact entry and compactions row as they are, and is not merged
\* before the next day's threshold.
C9_WriteAfterCompaction ==
    [][/\ \A h \in Handlers :
            /\ (/\ hs[h].pc = "gate"
                /\ hs'[h].pc = "insert"
                /\ \E r \in compactions : r.day = LocalDay(clock)) =>
                   UTCDate(hs'[h].now) = LocalDay(clock)
            /\ (hs[h].pc = "insert" /\ resp'[h].code = 201) =>
                   /\ \E e \in entries' \ entries :
                          /\ entries' = entries \cup {e}
                          /\ e.entry_type = "normal"
                          /\ e.created_at = hs[h].now
                   /\ compactions' = compactions
       /\ \A e \in entries \ entries' :
            (/\ e.entry_type = "normal"
             /\ \E r \in compactions : r.day = LocalDay(e.created_at)) =>
                /\ LocalDay(clock) > LocalDay(e.created_at)
                /\ Eligible(clock)
      ]_vars

\* C10: every normal entry ever stored is in the end destroyed, by the
\* compaction of its day.  A day's merge commits once only, so an entry
\* that is stored as normal under a day whose compactions row exists can
\* never be destroyed: no such entry may exist.
C10_EveryNormalEntryIsMerged ==
    \A e \in entries :
        e.entry_type = "normal" =>
            ~\E r \in compactions : r.day = UTCDate(e.created_at)

\* C11: the scheduler invokes compactDay on a tick only when the local
\* hour read on that tick is at or past 17; a tick that reads an hour below
\* 17 invokes nothing and changes nothing, so no compactions row is ever
\* committed for a tick that read a local time before 17:00.
C11_InvokesOnlyPastThreshold ==
    /\ [](/\ sched.pc \in {"check", "in"} => sched.hour >= CompactHour
          /\ cd[Sched].pc # "idle" =>
                 /\ sched.pc = "in"
                 /\ sched.hour >= CompactHour
                 /\ cd[Sched].day = sched.day)
    /\ [][/\ (sched.pc = "wait" /\ sched' # sched) =>
                 /\ LocalHour(clock) >= CompactHour
                 /\ sched'.hour = LocalHour(clock)
                 /\ sched'.pc = "check"
                 /\ cd' = cd
                 /\ dbvars' = dbvars
                 /\ writeLocked' = writeLocked
          /\ CommitStep(Sched) =>
                 /\ sched.hour >= CompactHour
                 /\ \E r \in compactions' \ compactions : r.day = sched.day
         ]_vars

\* The scheduler's compaction of the day of a tick past 17:00 has returned
\* nil, and the clock now shows an hour before 17:00.
C11_Witness ==
    /\ cd[Sched].pc = "ret"
    /\ cd[Sched].err = "nil"
    /\ sched.hour >= CompactHour
    /\ \E r \in compactions : r.day = sched.day
    /\ LocalHour(clock) < CompactHour

\* C12: on any day D a tick whose local hour is at or past 17 takes D as
\* today and, the ledger showing no row for D, calls compactDay(D),
\* whatever ticks were missed before; once the compactions row for D
\* exists, a tick on day D does not call compactDay and changes neither
\* entries, compactions, action_logs nor the write gate.
C12_TickAfterCompletionIsNoOp ==
    /\ [](/\ (sched.pc = "wait" /\ LocalHour(clock) >= CompactHour) =>
                 ENABLED (Tick /\ sched'.pc = "check")
          /\ (sched.pc = "check" /\ ~\E r \in compactions : r.day = sched.day) =>
                 ENABLED (AlreadyRanCheck /\ sched'.pc = "in"))
    /\ [][/\ (sched.pc = "wait" /\ sched'.pc = "check") => sched'.day = LocalDay(clock)
          /\ (sched.pc = "check" /\ sched' # sched) =>
                 /\ sched'.pc \in {"wait", "checkerr", "in"}
                 /\ (\E r \in compactions : r.day = sched.day) =>
                        /\ sched'.pc \in {"wait", "checkerr"}
                        /\ cd' = cd
                        /\ dbvars' = dbvars
                        /\ writeLocked' = writeLocked
                        /\ compactMu' = compactMu
                 /\ sched'.pc = "in" =>
                        /\ ~\E r \in compactions : r.day = sched.day
                        /\ cd'[Sched] = CallFrame(sched.day)
         ]_vars

\* A tick past 17:00 on a day whose compaction has committed (with merged
\* entries) is at its ledger lookup.
C12_Witness ==
    /\ sched.pc = "check"
    /\ \E r \in compactions : r.day = sched.day
    /\ \E i \in 1..Len(merges) : merges[i].day = sched.day /\ merges[i].src # <<>>
    /\ sched.day = LocalDay(clock)

\* C13: a failed compactDay(D) is not retried inside the engine nor within
\* the same tick, and the loop goes on: the failing invocation only runs
\* its deferred calls and returns, the loop then waits for the next tick
\* with the tables unchanged and D's row absent; and, failures not lasting
\* for ever, D is compacted in the end unless the day is over first.
C13_FailureIsRetriedOnLaterTick ==
    /\ [][/\ cd[Sched].err # "nil" =>
                 /\ cd'[Sched].pc \in {"rollback", "ungate", "unlock", "ret", "idle"}
                 /\ cd'[Sched].pc # "idle" => cd'[Sched].err = cd[Sched].err
          /\ (cd[Sched].pc = "ret" /\ cd[Sched].err # "nil" /\ cd'[Sched] # cd[Sched]) =>
                 /\ sched'.pc = "wait"
                 /\ cd'[Sched] = IdleFrame
                 /\ dbvars' = dbvars
                 /\ ~\E r \in compactions' : r.day = cd[Sched].day
         ]_vars
    /\ \A day \in Days :
           (cd[Sched].pc = "ret" /\ cd[Sched].err # "nil" /\ cd[Sched].day = day)
               ~> ((\E r \in compactions : r.day = day) \/ LocalDay(clock) > day)

\* compactDay(D) has failed after reading D's entries, the loop is back
\* waiting for a tick, it is still day D past 17:00 and D has no row.
C13_Witness ==
    /\ cd[Sched].pc = "ret"
    /\ cd[Sched].err = "io"
    /\ cd[Sched].src # <<>>
    /\ cd[Sched].day = LocalDay(clock)
    /\ LocalHour(clock) >= CompactHour
    /\ ~\E r \in compactions : r.day = cd[Sched].day

\* C14 (as written): a compactDay invocation made while another one is in
\* progress does not wait: at the mutex it always has a step to take, which
\* returns an 'already running' outcome.
C14_SecondCallerDoesNotWait ==
    \A p \in Invokers :
        (cd[p].pc = "lock" /\ compactMu # "none") => ENABLED CompactDay(p)

\* C14 (amended): a compactDay invocation made while another one is in
\* progress waits at compactMu.Lock() until the first releases the mutex:
\* it has no step while the mutex is held, it enters only when the mutex is
\* free, and no invocation ever ends with an outcome other than nil or the
\* error of a database call.
C14_SecondCallerWaits ==
    /\ [](\A p \in Invokers :
            /\ (cd[p].pc = "lock" /\ compactMu # "none") => ~ENABLED CompactDay(p)
            /\ cd[p].err \in {"nil", "io"})
    /\ [][\A p \in Invokers :
            (cd[p].pc = "lock" /\ cd'[p].pc \notin {"lock", "idle"}) =>
                /\ compactMu = "none"
                /\ compactMu' = p
                /\ cd'[p].pc = "gate"
         ]_vars

\* One invocation is inside its transaction while the other, called
\* meanwhile, is at the mutex.
C14_Witness ==
    \E p, q \in Invokers :
        /\ p # q
        /\ OwnsTx(p)
        /\ compactMu = p
        /\ cd[q].pc = "lock"

\* The program points of compactDay between compactMu.Lock() and the
\* deferred compactMu.Unlock().
HoldsMutex(p) ==
    cd[p].pc \in { "gate", "begin", "check", "read", "insert", "delete", "ledger",
                   "audit", "commit", "rollback", "ungate", "unlock" }

\* C15: never are two compactDay invocations both between acquiring and
\* releasing compactMu; the open transaction and every update of the write
\* gate belong to the one invocation that holds the mutex.
C15_InvocationsAreSerialized ==
    /\ [](/\ \A p, q \in Invokers : (HoldsMutex(p) /\ HoldsMutex(q)) => p = q
          /\ \A p \in Invokers : HoldsMutex(p) <=> compactMu = p
          /\ tx.active => HoldsMutex(tx.owner))
    /\ [][\A p \in Invokers :
            (writeLocked' # writeLocked /\ cd'[p] # cd[p] /\ cd'[p].pc # "idle") =>
                compactMu = p
         ]_vars

\* An invocation has gone through its critical section and returned, the
\* other one is now in its transaction, with the gate closed.
C15_Witness ==
    \E p, q \in Invokers :
        /\ p # q
        /\ cd[p].pc = "ret"
        /\ OwnsTx(q)
        /\ cd[q].pc = "read"
        /\ writeLocked

\* C16 (as written): every read of the compactions table made for an
\* attempt, the scheduler's compactionAlreadyRan lookup as well as the
\* check inside the transaction, happens while writeLocked is true.
C16_GateClosedForEveryLedgerRead ==
    [][(AlreadyRanCheck \/ CdCheck(Sched)) => writeLocked]_vars

\* C16 (amended): the write gate is closed for the whole of a compactDay
\* invocation from Store(true) to the deferred Store(false), so the check
\* inside the transaction reads the compactions table while writeLocked is
\* true; the scheduler's compactionAlreadyRan lookup comes before
\* compactDay is called and reads it while the gate is open.
C16_GateClosedInsideCompactDay ==
    /\ [](cd[Sched].pc \in { "begin", "check", "read", "insert", "delete", "ledger",
                             "audit", "commit", "rollback", "ungate" } => writeLocked)
    /\ [][/\ CdCheck(Sched) => writeLocked /\ writeLocked'
          /\ AlreadyRanCheck => ~writeLocked
         ]_vars

\* The scheduler's invocation has passed its check inside the transaction
\* and holds the entries it read, the gate being closed.
C16_Witness ==
    /\ sched.pc = "in"
    /\ cd[Sched].pc = "insert"
    /\ cd[Sched].src # <<>>
    /\ OwnsTx(Sched)
    /\ writeLocked

\* The line of the compact entry for a row of the entries table.
LineOf(e) ==
    CompactLine([ID |-> e.id, Username |-> UsernameOf(e.user_id),
                 Content |-> e.content, CreatedAt |-> e.created_at])

\* The place of row e among the rows S: one more than the number of rows
\* of S with an earlier created_at, or the same created_at and a lower id.
RankIn(S, e) ==
    1 + Cardinality({x \in S : (x.created_at < e.created_at)
                              \/ (x.created_at = e.created_at /\ x.id < e.id)})

RECURSIVE LinesFrom(_, _)
LinesFrom(S, k) ==
    IF k > Cardinality(S) THEN <<>>
    ELSE LineOf(CHOOSE e \in S : RankIn(S, e) = k) \o LinesFrom(S, k + 1)

\* C17: the body of the compact entry lists the merged entries by
\* ascending created_at, ties by ascending id: the entry made by a commit
\* holds the header and then the line of each entry the commit removed, in
\* that order.
C17_BodyInTimeThenIdOrder ==
    [][CommitStep("m1") =>
          LET gone == entries \ entries'
              made == entries' \ entries
          IN  gone # {} =>
                  /\ Cardinality(made) = 1
                  /\ \A c \in made :
                        c.content = <<"Daily compact for ", ToString(cd["m1"].day), "\n\n">>
                                        \o LinesFrom(gone, 1)
      ]_vars

\* Entries 2 and 3 share a created_at and entry 1 is later: the committed
\* compact entry was built from them in the order 2, 3, 1.
C17_Witness ==
    \E i \in 1..Len(merges) :
        /\ Len(merges[i].src) = 3
        /\ merges[i].src[1].ID = 2
        /\ merges[i].src[2].ID = 3
        /\ merges[i].src[3].ID = 1
        /\ merges[i].src[1].CreatedAt = merges[i].src[2].CreatedAt
        /\ \E e \in entries : e.id = merges[i].cid /\ e.entry_type = "daily_compact"

\* C18: compacting a day that has no normal entry commits a compactions
\* row for the day, creates no daily_compact entry and leaves the entries
\* table as it was.
C18_EmptyDayCommitsLedgerOnly ==
    [][(/\ CommitStep("m1")
        /\ ~\E e \in entries : /\ e.entry_type = "normal"
                               /\ UTCDate(e.created_at) = cd["m1"].day) =>
          /\ entries' = entries
          /\ seq' = seq
          /\ ~\E r \in compactions : r.day = cd["m1"].day
          /\ \E r \in compactions' : r.day = cd["m1"].day
      ]_vars

\* A compaction of a day without normal entries has committed its row,
\* with no compact entry made, while the table holds entries of another
\* day.
C18_Witness ==
    /\ \E i \in 1..Len(merges) :
          /\ merges[i].src = <<>>
          /\ merges[i].cid = 0
          /\ \E r \in compactions : r.day = merges[i].day
    /\ entries # {}
    /\ \A e \in entries : e.entry_type = "normal"

\* C19: compactDay(D) deletes only normal entries of day D: every
\* daily_compact entry and every normal entry of another day is in the
\* table unchanged after the commit, and no other step removes an entry; a
\* merged record stays in the table and is never among the entries a later
\* compaction merges.
C19_OnlyTheDaysNormalEntriesGo ==
    /\ [][/\ CommitStep("m1") =>
                \A e \in entries \ entries' :
                    /\ e.entry_type = "normal"
                    /\ UTCDate(e.created_at) = cd["m1"].day
          /\ ~CommitStep("m1") => entries \subseteq entries'
         ]_vars
    /\ [](\A i \in 1..Len(merges) :
            merges[i].cid # 0 =>
                /\ \E e \in entries : e.id = merges[i].cid /\ e.entry_type = "daily_compact"
                /\ \A j \in 1..Len(merges) :
                      \A k \in 1..Len(merges[j].src) : merges[j].src[k].ID # merges[i].cid)

\* Two days were compacted one after the other: the compact entry of the
\* first, dated on the second day, is still there beside the compact entry
\* of the second.
C19_Witness ==
    /\ Len(merges) = 2
    /\ merges[1].cid # 0
    /\ merges[2].cid # 0
    /\ \E e \in entries :
          /\ e.id = merges[1].cid
          /\ e.entry_type = "daily_compact"
          /\ UTCDate(e.created_at) = merges[2].day

\* C20: every daily_compact entry has a null owning user, and every entry
\* created by a create request has kind normal and a non-null user.
C20_CompactHasNoOwner ==
    /\ [](\A e \in entries :
            /\ e.entry_type = "daily_compact" => e.user_id = 0
            /\ e.entry_type = "normal" => \E u \in Users : u.id = e.user_id
            /\ e.entry_type \in {"normal", "daily_compact"})
    /\ [][\A h \in Handlers :
            (hs[h].pc = "insert" /\ hs'[h].pc = "done") =>
                \A e \in entries' \ entries :
                    e.entry_type = "normal" /\ e.user_id # 0 /\ e.user_id = hs[h].user
         ]_vars

\* The table holds a compact entry and, posted after it, a normal entry.
C20_Witness ==
    \E c, e \in entries :
        /\ c.entry_type = "daily_compact"
        /\ c.user_id = 0
        /\ e.entry_type = "normal"
        /\ e.user_id # 0
        /\ e.id > c.id

\* C21: the compactions ledger only grows: it holds at most one row per
\* day; a row appears only at the commit of a compactDay transaction, the
\* one that removes the day's normal entries and adds the compact entry;
\* and no step (another compactDay, a request handler, a crash) ever
\* changes or removes a row.
C21_LedgerOnlyGrows ==
    /\ [](\A r, q \in compactions : r.day = q.day => r = q)
    /\ [][/\ compactions \subseteq compactions'
          /\ compactions' # compactions =>
                \E p \in Invokers :
                    /\ CommitStep(p)
                    /\ compactions' \ compactions
                           = {[day |-> cd[p].day, ran_at |-> nowUTC]}
                    /\ tx.compactions = compactions'
                    /\ tx.entries = entries'
                    /\ \A e \in entries \ entries' :
                          e.entry_type = "normal" /\ UTCDate(e.created_at) = cd[p].day
          /\ (\E p \in Invokers : CommitStep(p)) => compactions' # compactions
         ]_vars

\* Two days have their rows, the first written with merged entries, and a
\* create request was answered after the second row was written.
C21_Witness ==
    /\ Cardinality(compactions) = 2
    /\ Len(merges) = 2
    /\ merges[1].src # <<>>
    /\ \E r \in compactions : r.day = merges[1].day
    /\ \E h \in Handlers : resp[h].code = 201 /\ resp[h].id > merges[1].cid

\* The step is the death and restart of the process: every goroutine is
\* gone, whatever it was doing.
Restart ==
    /\ sched'.pc = "wait"
    /\ \A p \in Callers : cd'[p].pc = "idle"
    /\ \A h \in Handlers : hs'[h].pc = "idle"
    /\ \E p \in Callers : cd[p].pc \notin {"idle", "ret"}

\* C22: a crash at any point of compactDay(D) followed by a restart is
\* safe: the restart leaves the gate open, the mutex free and the tables as
\* last committed; the tables are at all times entirely before or entirely
\* after each day's compaction (row, audit record, compact entry and
\* removal of the merged entries go together); a compactDay after the
\* restart commits only for a day that has no row; no entry is merged twice
\* and every id handed out is either in the table or was merged once.
C22_CrashAndRestartIsSafe ==
    /\ [][Restart => /\ writeLocked' = FALSE
                     /\ compactMu' = "none"
                     /\ tx' = NoTx
                     /\ dbvars' = dbvars
                     /\ merges' = merges
         ]_vars
    /\ [](/\ \A r \in compactions : \E i \in 1..Len(merges) : merges[i].day = r.day
          /\ \A i \in 1..Len(merges) :
                /\ \E r \in compactions : r.day = merges[i].day
                /\ \A j \in 1..Len(merges) : merges[j].day = merges[i].day => j = i
                /\ \A k \in 1..Len(merges[i].src) :
                      /\ ~\E e \in entries : e.id = merges[i].src[k].ID
                      /\ \A j \in 1..Len(merges) : \A l \in 1..Len(merges[j].src) :
                            merges[j].src[l].ID = merges[i].src[k].ID => (j = i /\ l = k)
                /\ merges[i].src # <<>> =>
                      \E e \in entries : /\ e.id = merges[i].cid
                                         /\ e.entry_type = "daily_compact"
                                         /\ e.content = CompactBody(merges[i].day, merges[i].src)
          /\ Cardinality({i \in 1..Len(action_logs) : action_logs[i].action = "daily_compact"})
                = Len(merges)
          /\ \A id \in 1..seq :
                \/ \E e \in entries : e.id = id
                \/ \E i \in 1..Len(merges) : \E k \in 1..Len(merges[i].src) :
                      merges[i].src[k].ID = id
          /\ \A p \in Invokers :
                (cd[p].pc \in {"read", "insert", "delete", "ledger", "audit", "commit"}) =>
                    ~\E r \in compactions : r.day = cd[p].day)

\* A compactDay holds the connection with its merge written but not
\* committed, the gate closed, while another caller waits at the mutex: the
\* point at which the process dies.
C22_Witness ==
    \E p, q \in Invokers :
        /\ cd[p].pc = "commit"
        /\ OwnsTx(p)
        /\ writeLocked
        /\ cd[p].src # <<>>
        /\ tx.entries # entries
        /\ tx.compactions # compactions
        /\ cd[q].pc = "lock"
        /\ merges = <<>>

\* The audit records of compactions in the action log.
AuditRows(logs) == {i \in 1..Len(logs) : logs[i].action = "daily_compact"}

\* The step in which the outcome of invocation p is decided: its commit
\* (success), the row found by its check (no-op), or an error.
OutcomeStep(p) ==
    \/ CommitStep(p)
    \/ cd[p].pc = "check" /\ cd'[p].pc = "rollback" /\ cd'[p].err = "nil"
    \/ cd[p].pc # "idle" /\ cd'[p].pc # "idle" /\ cd[p].err = "nil" /\ cd'[p].err # "nil"

\* C23 (as written): every compactDay invocation, whether it ends in
\* success, in the already-compacted no-op or in failure, adds exactly one
\* audit record when its outcome is decided.
C23_OneAuditRecordPerOutcome ==
    [][\A p \in Invokers :
          OutcomeStep(p) =>
              Cardinality(AuditRows(action_logs')) = Cardinality(AuditRows(action_logs)) + 1
      ]_vars

\* C23 (amended): only success is audited: a compactDay invocation that
\* commits adds exactly one audit record, naming the day and the number of
\* entries merged; the already-compacted no-op and a failure add none, and
\* no other step adds or removes one.
C23_OneAuditRecordPerCommit ==
    [][/\ \A p \in Invokers :
            CommitStep(p) =>
                action_logs' = Append(action_logs,
                    [actor_type |-> "system", actor_username |-> "scheduler",
                     action |-> "daily_compact",
                     metadata |-> <<"day=", ToString(cd[p].day), " merged=",
                                    ToString(Len(cd[p].src))>>])
       /\ (~\E p \in Invokers : CommitStep(p)) =>
            /\ AuditRows(action_logs') = AuditRows(action_logs)
            /\ \A i \in AuditRows(action_logs) : action_logs'[i] = action_logs[i]
      ]_vars

\* A day was merged with one audit record written; since then one
\* invocation for that day has returned nil as a no-op and another has
\* failed, and the log still holds the one record.
C23_Witness ==
    /\ Len(merges) = 1
    /\ merges[1].src # <<>>
    /\ Cardinality(AuditRows(action_logs)) = 1
    /\ \E p, q \in Invokers :
          /\ cd[p].pc = "ret" /\ cd[p].err = "nil" /\ cd[p].day = merges[1].day
          /\ cd[p].src = <<>>
          /\ cd[q].pc = "ret" /\ cd[q].err = "io"

\* C26: the scheduler only ever attempts 'today': the day of every
\* compactDay call it makes is the local date read by the tick that makes
\* the call, so a tick never takes up an earlier day that has no row, and
\* the days it compacts come in increasing order.
C26_OnlyTodayIsAttempted ==
    /\ [][/\ (sched.pc = "wait" /\ sched' # sched) =>
                 /\ sched'.day = LocalDay(clock)
                 /\ \A day \in Days :
                       (day < LocalDay(clock) /\ ~\E r \in compactions : r.day = day)
                           => sched'.day # day
          /\ (sched.pc = "check" /\ sched'.pc = "in") =>
                 /\ sched'.day = sched.day
                 /\ cd'[Sched].day = sched.day
          /\ (cd[Sched].pc # "idle" /\ cd'[Sched].pc # "idle") =>
                 /\ cd'[Sched].day = cd[Sched].day
                 /\ sched'.day = cd[Sched].day
          /\ CommitStep(Sched) =>
                 \A i \in 1..Len(merges) : merges[i].day < cd[Sched].day
         ]_vars
    /\ [](\A r \in compactions : r.day <= LocalDay(r.ran_at))

\* No tick came while the first day was past 17:00: the scheduler has
\* compacted a later day, and the first day has no row and still holds a
\* normal entry.
C26_Witness ==
    /\ cd[Sched].pc = "ret"
    /\ cd[Sched].err = "nil"
    /\ \E r \in compactions : r.day = sched.day
    /\ \E day \in Days :
          /\ LocalDay(NextInstant(0)) <= day
          /\ day < sched.day
          /\ ~\E r \in compactions : r.day = day
          /\ \E e \in entries : e.entry_type = "normal" /\ UTCDate(e.created_at) = day

\* What a tick does, from the local time it reads and the ledger alone.
Decision(hour, day, comps) ==
    IF hour < CompactHour THEN "skip"
    ELSE IF \E r \in comps : r.day = day THEN "skip" ELSE "invoke"

\* C27: the scheduler keeps no state between ticks: while it waits for a
\* tick it holds nothing, after a return as after a restart; whether a tick
\* calls compactDay, and for which day, is decided by the local time read on
\* that tick and the rows of compactions at its lookup alone: the call is
\* made only when these say so, and can be made whenever they do, whatever
\* the entries, the audit log and the compactions committed earlier.
C27_TickDecisionFromTimeAndLedger ==
    /\ [](/\ sched.pc = "wait" =>
                 /\ sched = [pc |-> "wait", day |-> 0, hour |-> 0]
                 /\ cd[Sched] = IdleFrame
          /\ sched.pc = "check" =>
                 /\ cd[Sched] = IdleFrame
                 /\ (Decision(sched.hour, sched.day, compactions) = "invoke")
                        <=> ENABLED (AlreadyRanCheck /\ sched'.pc = "in")
          /\ (sched.pc = "wait" /\ Decision(LocalHour(clock), LocalDay(clock), {}) = "skip")
                 => ~ENABLED (Tick /\ sched' # sched))
    /\ [][/\ (sched.pc = "wait" /\ sched' # sched) =>
                 sched' = [pc |-> "check", day |-> LocalDay(clock),
                           hour |-> LocalHour(clock)]
          /\ (sched.pc = "check" /\ sched'.pc = "in") =>
                 /\ Decision(sched.hour, sched.day, compactions) = "invoke"
                 /\ cd'[Sched] = CallFrame(sched.day)
         ]_vars

\* With normal entries, a compact entry and an earlier day's compaction in
\* the tables, a tick has read the time and found no row for the day: the
\* call is the one a first tick would make.
C27_Witness ==
    /\ sched.pc = "in"
    /\ cd[Sched] = CallFrame(sched.day)
    /\ Len(merges) = 1
    /\ merges[1].day < sched.day
    /\ \E e \in entries : e.entry_type = "normal"
    /\ \E e \in entries : e.entry_type = "daily_compact"

\* The step is the answer of handler h to a list-entries request.
ListStep(h) == hs[h].pc = "idle" /\ hs'[h].pc = "done" /\ hs'[h].kind = "list"

\* The listing r holds exactly the stored entries ents of the day, each
\* with its own fields, newest first (ties by descending id).
ListsTheDay(r, ents, day, limit) ==
    LET rows == {e \in ents : UTCDate(e.created_at) = day}
        Newer(a, b) == \/ a.created_at > b.created_at
                       \/ a.created_at = b.created_at /\ a.id > b.id
    IN
    /\ Len(r) = IF Cardinality(rows) <= limit THEN Cardinality(rows) ELSE limit
    /\ \A i \in 1..Len(r) : \E e \in rows :
          /\ r[i].id = e.id
          /\ r[i].entry_type = e.entry_type
          /\ r[i].content = e.content
          /\ r[i].created_at = e.created_at
          /\ Cardinality({x \in rows : Newer(x, e)}) = i - 1

\* C24: reads are never blocked by the gate: a list-entries request is
\* never answered 423; its answer is 401, a 500 of the query, or 200 with
\* the stored entries of the requested day, the same with writeLocked true
\* as with writeLocked false; and whenever a request can be taken up, the
\* 200 is possible, the gate closed or open.
C24_ListIgnoresGate ==
    /\ [][\A h \in Handlers :
            ListStep(h) =>
                /\ resp'[h].code \in {200, 400, 401, 500}
                /\ resp'[h].code = 200 =>
                       ListsTheDay(resp'[h].entries, entries, resp'[h].day,
                                   hs'[h].limit)
                /\ writeLocked' = writeLocked
         ]_vars
    /\ [](\A h \in Handlers :
            (hs[h].pc = "idle" /\ Room /\ ConnFree) =>
                ENABLED (HList(h) /\ resp'[h].code = 200))
    /\ [](\A h \in Handlers : hs[h].kind = "list" => resp[h].code # 423)

\* A list request was answered 200 with the compact entry just committed
\* while compactDay had not yet reopened the gate.
C24_Witness ==
    \E h \in Handlers :
        /\ hs[h].kind = "list"
        /\ resp[h].code = 200
        /\ writeLocked
        /\ cd[Sched].pc = "ungate"
        /\ \E i \in 1..Len(resp[h].entries) :
              /\ resp[h].entries[i].entry_type = "daily_compact"
              /\ resp[h].entries[i].id = cd[Sched].cid

\* The entries of e's UTC day that the list query orders before e.
NewerOfDay(ents, e) ==
    Cardinality({x \in ents :
        /\ UTCDate(x.created_at) = UTCDate(e.created_at)
        /\ \/ x.created_at > e.created_at
           \/ x.created_at = e.created_at /\ x.id > e.id})

\* C29 as stated: a create-entry request answered 201 has inserted exactly
\* one entry, of kind normal, owned by the authenticated user, holding the
\* submitted content without its leading and trailing white space; the
\* entry stays in the table until a compaction commits, and every
\* list-entries request answered 200 for the UTC day of its created_at
\* returns it, with its content and its author, under the requested day.
C29_CreatedEntryIsAlwaysListed ==
    [][/\ \A h \in Handlers :
            /\ (hs[h].pc = "gate" /\ hs'[h].pc = "insert") =>
                   /\ hs'[h].user = hs[h].user
                   /\ hs'[h].body # <<>>
                   /\ ~IsSpace(Head(hs'[h].body))
                   /\ ~IsSpace(hs'[h].body[Len(hs'[h].body)])
                   /\ \E i, j \in 0..Len(hs[h].body) :
                         /\ hs[h].body = [k \in 1..i |-> hs[h].body[k]]
                                            \o hs'[h].body
                                            \o [k \in 1..j |-> hs[h].body[Len(hs[h].body) - j + k]]
                         /\ \A k \in 1..i : IsSpace(hs[h].body[k])
                         /\ \A k \in 1..j : IsSpace(hs[h].body[Len(hs[h].body) - j + k])
            /\ (hs[h].pc = "insert" /\ hs'[h].pc = "done") =>
                   (resp'[h].code = 201 <=> entries' # entries)
            /\ (hs[h].pc = "insert" /\ resp'[h].code = 201) =>
                   /\ \E e \in entries' :
                         /\ entries' = entries \cup {e}
                         /\ e \notin entries
                         /\ e.id = resp'[h].id
                         /\ e.entry_type = "normal"
                         /\ e.user_id = hs[h].user
                         /\ e.user_id = AuthUser("tokA")
                         /\ e.content = hs[h].body
                   /\ \A e \in entries : e.id # resp'[h].id
            /\ (ListStep(h) /\ resp'[h].code = 200) =>
                   /\ resp'[h].day \in {UTCDate(clock), LocalDay(clock)}
                   /\ \A e \in entries :
                         (e.entry_type = "normal" /\ UTCDate(e.created_at) = resp'[h].day) =>
                             \E i \in 1..Len(resp'[h].entries) :
                                 /\ resp'[h].entries[i].id = e.id
                                 /\ resp'[h].entries[i].content = e.content
                                 /\ resp'[h].entries[i].entry_type = "normal"
                                 /\ resp'[h].entries[i].user = UsernameOf(e.user_id)
       /\ (~CommitStep(Sched)) => entries \subseteq entries'
      ]_vars


\* C29: a create-entry request answered 201 has inserted exactly one
\* entry, of kind normal, owned by the authenticated user, holding the
\* submitted content without its leading and trailing white space; the
\* entry stays in the table until a compaction commits, and every
\* list-entries request answered 200 for the UTC day of its created_at
\* whose limit exceeds the number of that day's entries listed before it
\* (the later ones) returns it, with its content and its author, under
\* the requested day.
C29_CreatedEntryIsListed ==
    [][/\ \A h \in Handlers :
            /\ (hs[h].pc = "gate" /\ hs'[h].pc = "insert") =>
                   /\ hs'[h].user = hs[h].user
                   /\ hs'[h].body # <<>>
                   /\ ~IsSpace(Head(hs'[h].body))
                   /\ ~IsSpace(hs'[h].body[Len(hs'[h].body)])
                   /\ \E i, j \in 0..Len(hs[h].body) :
                         /\ hs[h].body = [k \in 1..i |-> hs[h].body[k]]
                                            \o hs'[h].body
                                            \o [k \in 1..j |-> hs[h].body[Len(hs[h].body) - j + k]]
                         /\ \A k \in 1..i : IsSpace(hs[h].body[k])
                         /\ \A k \in 1..j : IsSpace(hs[h].body[Len(hs[h].body) - j + k])
            /\ (hs[h].pc = "insert" /\ hs'[h].pc = "done") =>
                   (resp'[h].code = 201 <=> entries' # entries)
            /\ (hs[h].pc = "insert" /\ resp'[h].code = 201) =>
                   /\ \E e \in entries' :
                         /\ entries' = entries \cup {e}
                         /\ e \notin entries
                         /\ e.id = resp'[h].id
                         /\ e.entry_type = "normal"
                         /\ e.user_id = hs[h].user
                         /\ e.user_id = AuthUser("tokA")
                         /\ e.content = hs[h].body
                   /\ \A e \in entries : e.id # resp'[h].id
            /\ (ListStep(h) /\ resp'[h].code = 200) =>
                   /\ resp'[h].day \in {UTCDate(clock), LocalDay(clock)}
                   /\ \A e \in entries :
                         (/\ e.entry_type = "normal"
                          /\ UTCDate(e.created_at) = resp'[h].day
                          /\ NewerOfDay(entries, e) < hs'[h].limit) =>
                             \E i \in 1..Len(resp'[h].entries) :
                                 /\ resp'[h].entries[i].id = e.id
                                 /\ resp'[h].entries[i].content = e.content
                                 /\ resp'[h].entries[i].entry_type = "normal"
                                 /\ resp'[h].entries[i].user = UsernameOf(e.user_id)
       /\ (~CommitStep(Sched)) => entries \subseteq entries'
      ]_vars

\* A list request for the UTC day on which alice's entry was created is
\* answered 200 with that entry: content "a\nb" as trimmed from " a\nb".
C29_Witness ==
    \E h \in Handlers :
        /\ hs[h].kind = "list"
        /\ resp[h].code = 200
        /\ merges = <<>>
        /\ \E e \in entries :
              /\ e.entry_type = "normal"
              /\ e.content = <<"a", "\n", "b">>
              /\ e.user_id = 1
              /\ UTCDate(e.created_at) = resp[h].day
              /\ \E i \in 1..Len(resp[h].entries) :
                    /\ resp[h].entries[i].id = e.id
                    /\ resp[h].entries[i].content = <<"a", "\n", "b">>
                    /\ resp[h].entries[i].user = "alice"

\* A step of a request handler: a handler goroutine moves.
HandlerStep == \E h \in Handlers : hs'[h] # hs[h]

\* C28: only compactDay changes the gate and deletes or rewrites entries.
\* No step of a request handler (create, list, whoami, health, admin
\* users) changes writeLocked, the mutex, the transaction or the
\* compactions table, and none removes or changes a stored entry: a handler
\* step adds at most one entry, of kind normal.  The gate changes only at
\* compactDay's Store(true) and its deferred Store(false), and entries
\* leave the table and ledger rows appear only when its transaction commits.
C28_OnlyCompactDayTouchesGateAndEntries ==
    [][/\ HandlerStep =>
            /\ writeLocked' = writeLocked
            /\ compactMu' = compactMu
            /\ tx' = tx
            /\ compactions' = compactions
            /\ entries \subseteq entries'
            /\ Cardinality(entries' \ entries) <= 1
            /\ \A e \in entries' \ entries :
                  /\ e.entry_type = "normal"
                  /\ \E h \in Handlers : hs[h].pc = "insert" /\ hs[h].kind = "create"
            /\ \A i \in 1..Len(action_logs) : action_logs'[i] = action_logs[i]
       /\ writeLocked' # writeLocked =>
            \E p \in Callers :
               /\ cd[p].pc \in {"gate", "ungate"}
               /\ cd'[p].pc # cd[p].pc
               /\ writeLocked' = (cd[p].pc = "gate")
       /\ (~(entries \subseteq entries') \/ compactions' # compactions) =>
            \E p \in Callers : CommitStep(p)
      ]_vars

\* A whoami request was answered 200, its action_logs row written, while
\* compactDay held the gate closed, and the gate is still closed.
C28_Witness ==
    \E h \in Handlers :
        /\ hs[h].kind = "me"
        /\ hs[h].pc = "done"
        /\ resp[h].code = 200
        /\ writeLocked
        /\ cd[Sched].pc = "begin"
        /\ Len(action_logs) > 0
        /\ action_logs[Len(action_logs)].action = "whoami"

\* C25: once compactionLoop has taken ctx.Done() it has returned for good
\* and starts no compaction attempt; and a compactDay invocation in flight
\* is never cut off mid-transaction: its transaction ends only by its own
\* Commit or Rollback, and the gate is reopened, the mutex released and the
\* invocation left only after that.
C25_InFlightCompactDayFinishes ==
    [][/\ sched.pc = "returned" =>
            /\ sched'.pc = "returned"
            /\ cd[Sched].pc = "idle"
            /\ cd'[Sched].pc = "idle"
       /\ (OwnsTx(Sched) /\ ~tx'.active) =>
            /\ cd[Sched].pc \in {"commit", "rollback"}
            /\ cd'[Sched].pc \in {"rollback", "ungate"}
       /\ OwnsTx(Sched) =>
            /\ writeLocked'
            /\ compactMu' = Sched
            /\ cd'[Sched].pc # "idle"
      ]_vars

\* The integrations called so far by the running or the last Notify, in
\* the order of the calls.
CalledNames == [k \in 1..Len(disp.calls) |-> disp.calls[k].name]

\* C30: Notify calls every registered integration exactly once per event,
\* in the order of registration (an integration registered twice is called
\* once for each registration), each with the event; a failing integration
\* does not keep the later ones from being called; and Add(nil) registers
\* nothing.
C30_NotifyCallsEveryIntegrationInOrder ==
    /\ [](/\ \A k \in 1..Len(disp.integrations) :
                disp.integrations[k] \in Integrations
          /\ \A k \in 1..Len(disp.calls) : disp.calls[k].evt = disp.evt
          /\ Len(disp.log) = Len(disp.calls)
          /\ disp.pc = "range" =>
                /\ disp.ranged = disp.integrations
                /\ CalledNames = SubSeq(disp.integrations, 1, disp.i - 1)
          /\ (disp.pc = "idle" /\ disp.evt # "none") =>
                CalledNames = disp.ranged)
    /\ [][/\ (disp.pc = "range" /\ disp'.pc = "idle") =>
                 CalledNames = disp.integrations
          /\ disp'.integrations # disp.integrations =>
                 /\ disp.pc = "idle"
                 /\ \E x \in Integrations :
                       disp'.integrations = Append(disp.integrations, x)
         ]_vars

\* Notify has returned after calling slack, whose call failed, and then
\* fake, whose call succeeded.
C30_Witness ==
    /\ disp.pc = "idle"
    /\ disp.evt = "daily_compact"
    /\ disp.integrations = <<"slack", "fake">>
    /\ CalledNames = <<"slack", "fake">>
    /\ disp.log[1].event = "integration_notify_failed"
    /\ disp.log[2].event = "integration_notify_ok"

\* C40: when compactionAlreadyRan returns an error on a tick, the scheduler
\* does not call compactDay on that tick: the failed check and the logging
\* of its error change no table, not the gate, the mutex or a transaction,
\* and start no invocation; the loop is then back at its ticker, where the
\* next tick is taken as any other.
C40_CheckErrorSkipsTheTick ==
    /\ [](/\ sched.pc = "checkerr" =>
                /\ cd[Sched] = IdleFrame
                /\ ~writeLocked
                /\ compactMu # Sched
                /\ ~OwnsTx(Sched)
                /\ ENABLED (CheckError /\ sched'.pc = "wait")
          /\ (sched.pc = "wait" /\ LocalHour(clock) >= CompactHour) =>
                ENABLED (Tick /\ sched'.pc = "check"))
    /\ [][/\ (sched.pc = "check" /\ sched'.pc = "checkerr") =>
                /\ sched'.day = sched.day
                /\ cd' = cd
                /\ dbvars' = dbvars
                /\ tx' = tx
                /\ writeLocked' = writeLocked
                /\ compactMu' = compactMu
          /\ sched.pc = "checkerr" =>
                /\ sched'.pc \in {"checkerr", "wait"}
                /\ cd'[Sched] = IdleFrame
          /\ (sched.pc = "checkerr" /\ sched' # sched) =>
                /\ dbvars' = dbvars
                /\ tx' = tx
                /\ writeLocked' = writeLocked
                /\ compactMu' = compactMu
         ]_vars

\* The ledger check of an eligible tick has failed on a day that has
\* entries to merge and no ledger row: nothing was started.
C40_Witness ==
    /\ sched.pc = "checkerr"
    /\ sched.day = LocalDay(clock)
    /\ ~HasRow(compactions, sched.day)
    /\ \E e \in entries : e.entry_type = "normal" /\ UTCDate(e.created_at) = sched.day
    /\ cd[Sched] = IdleFrame
    /\ ~writeLocked

\* The handler h answers its create-entry request, or passes its checks.
GateStep(h) == hs[h].pc = "gate" /\ hs'[h].pc \in {"done", "insert"}

\* C39: handleCreateEntry checks authentication, then the write gate, then
\* the JSON, then the content for being empty, then its size.  A POST
\* without a valid token is answered 401 with the gate open or closed; an
\* authenticated POST that finds the gate closed is answered 423 whatever
\* its body; with the gate open invalid JSON is answered "invalid json",
\* white space "content is required", a content over 20000 characters
\* "content too large", and any other body passes to the INSERT.
C39_ChecksInOrder ==
    /\ [](\A h \in Handlers :
            /\ (hs[h].pc = "idle" /\ Room /\ ConnFree) =>
                  ENABLED (HStartFrom(h, Bodies) /\ resp'[h].code = 401)
            /\ hs[h].pc \in {"gate", "insert"} => hs[h].user # 0
            /\ hs[h].pc = "gate" =>
                  ENABLED (HGate(h) /\ (resp'[h].code = 423 <=> writeLocked)))
    /\ [][\A h \in Handlers :
            /\ (hs[h].pc = "idle" /\ hs'[h].pc = "done") =>
                  /\ resp'[h].code = 401
                  /\ hs'[h].user = 0
            /\ GateStep(h) =>
                  LET b == hs[h].body
                      c == resp'[h].code
                      msg == resp'[h].msg
                  IN  /\ writeLocked => c = 423
                      /\ (~writeLocked /\ b = BadJSON) =>
                            c = 400 /\ msg = "invalid json"
                      /\ (~writeLocked /\ b # BadJSON /\ \A i \in 1..Len(b) : IsSpace(b[i])) =>
                            c = 400 /\ msg = "content is required"
                      /\ (~writeLocked /\ b = LargeBody) =>
                            c = 400 /\ msg = "content too large"
                      /\ (~writeLocked /\ b = <<" ", "a", "\n", "b">>) =>
                            hs'[h].pc = "insert" /\ c = 0
         ]_vars

\* An authenticated POST with a body that is not JSON was answered 423:
\* the gate was looked at first, and it is still closed.
C39_Witness ==
    \E h \in Handlers :
        /\ hs[h].pc = "done"
        /\ hs[h].user # 0
        /\ hs[h].body = BadJSON
        /\ resp[h].code = 423
        /\ writeLocked

\* The codes with which a create-entry request is turned away.
Rejections == {400, 401, 423}

\* C37: a create-entry request that is rejected (401 without a valid
\* token, 423 at the closed gate, 400 for invalid JSON, for an empty
\* content or for a content that is too large) has changed nothing: the
\* step that answers it, and every step of the request before it, leaves
\* entries and its id sequence, action_logs, compactions and the write
\* gate as they were; a rejected request never reaches the INSERT.
C37_RejectedCreateChangesNothing ==
    /\ [](\A h \in Handlers :
            (hs[h].kind = "create" /\ resp[h].code \in Rejections) =>
                /\ hs[h].pc = "done"
                /\ hs[h].id = 0
                /\ resp[h].id = 0)
    /\ [][\A h \in Handlers :
            /\ (hs'[h] # hs[h] /\ hs'[h].kind = "create"
                  /\ (resp'[h].code \in Rejections \/ hs[h].pc \in {"idle", "gate"})) =>
                  /\ entries' = entries
                  /\ seq' = seq
                  /\ action_logs' = action_logs
                  /\ compactions' = compactions
                  /\ writeLocked' = writeLocked
                  /\ tx' = tx
            /\ (hs[h].pc = "insert" /\ hs'[h].pc = "done") =>
                  resp'[h].code \notin Rejections
         ]_vars

\* A content of 20001 characters has been answered 400 "content too
\* large" while the table held an entry and the audit log its row.
C37_Witness ==
    \E h \in Handlers :
        /\ hs[h].pc = "done"
        /\ hs[h].body = LargeBody
        /\ resp[h].code = 400
        /\ resp[h].msg = "content too large"
        /\ entries # {}
        /\ Len(action_logs) = 1

\* The entry lines of a compact body: each ends in a line feed, and the
\* line feeds of the contents are escaped.
EntryLines(body) == Cardinality({i \in 1..Len(body) : body[i] = "\n"})

\* The audit records of the compaction of a day.
AuditRowsOf(logs, day, n) ==
    {i \in AuditRows(logs) : logs[i].metadata = CompactMetadata(day, n)}

\* C36: every committed compaction writes exactly one audit record inside
\* its transaction.  In every reachable state the table action_logs holds
\* as many daily_compact rows as the table compactions holds rows, one for
\* each compacted day, and so does the view of a transaction about to
\* commit; the merged count of the record written by a commit is the
\* number of normal entries the commit deleted and the number of entry
\* lines in the body of the compact entry it made (0, and no compact
\* entry, for an empty day).
C36_OneAuditRecordPerCompaction ==
    /\ [](/\ Cardinality(AuditRows(action_logs)) = Cardinality(compactions)
          /\ \A r \in compactions :
                \E n \in 0..MaxRows :
                    /\ Cardinality(AuditRowsOf(action_logs, r.day, n)) = 1
                    /\ \A i \in MergesOf(r.day) : Len(merges[i].src) = n
          /\ \A p \in Invokers :
                (cd[p].pc = "commit" /\ OwnsTx(p)) =>
                    Cardinality(AuditRows(tx.action_logs)) = Cardinality(tx.compactions))
    /\ [][\A p \in Invokers :
            CommitStep(p) =>
                LET gone == entries \ entries'
                    made == entries' \ entries
                    n == Cardinality(gone)
                IN  /\ action_logs'[Len(action_logs')].metadata = CompactMetadata(cd[p].day, n)
                    /\ Len(action_logs') = Len(action_logs) + 1
                    /\ \A e \in gone : e.entry_type = "normal"
                    /\ IF n = 0
                       THEN made = {}
                       ELSE /\ Cardinality(made) = 1
                            /\ \A c \in made : /\ c.entry_type = "daily_compact"
                                                /\ EntryLines(c.content) = n
         ]_vars

\* Two days are compacted, one that held two entries (one of them with a
\* line feed in its content) and one that held none: two ledger rows, two
\* audit records, merged=2 and merged=0.
C36_Witness ==
    /\ Cardinality(compactions) = 2
    /\ Cardinality(AuditRows(action_logs)) = 2
    /\ \E i, j \in 1..Len(merges) :
          /\ Len(merges[i].src) = 2
          /\ merges[j].src = <<>>
          /\ \E e \in entries : /\ e.id = merges[i].cid
                                /\ EntryLines(e.content) = 2

\* The statements of compactDay from db.Begin() to the deferred Rollback.
TxSection ==
    {"begin", "check", "read", "insert", "delete", "ledger", "audit", "commit", "rollback"}

\* C34: the gate is closed at every step of a compactDay transaction,
\* from Begin through Commit or Rollback, also when invocations queue on
\* compactMu.  An invocation between Begin and its deferred Rollback holds
\* the mutex and finds writeLocked true, as does every open transaction;
\* an invocation releases the mutex only with the gate already reopened,
\* and the invocation that reopens the gate still holds the mutex while
\* every other one is outside its critical section, so no waiting
\* invocation's closed gate is reopened by its predecessor.
C34_GateClosedThroughTransaction ==
    /\ [](/\ \A p \in Invokers :
                cd[p].pc \in TxSection => (writeLocked /\ compactMu = p)
          /\ tx.active => writeLocked)
    /\ [][\A p \in Invokers :
            /\ (compactMu = p /\ compactMu' # p /\ cd'[p].pc # "idle") =>
                  (~writeLocked /\ ~writeLocked')
            /\ (writeLocked /\ ~writeLocked' /\ cd'[p] # cd[p] /\ cd'[p].pc # "idle") =>
                  /\ compactMu = p
                  /\ compactMu' = p
                  /\ \A q \in Invokers \ {p} : cd[q].pc \in {"idle", "lock", "ret"}
         ]_vars

\* An invocation has committed and reopened the gate and still holds the
\* mutex, on which the other invocation waits.
C34_Witness ==
    \E p, q \in Invokers :
        /\ cd[p].pc = "unlock"
        /\ cd[p].err = "nil"
        /\ compactMu = p
        /\ ~writeLocked
        /\ cd[q].pc = "lock"
        /\ Len(merges) = 1

\* The step of handler h is the INSERT of its normal entry.
InsertStep(h) ==
    /\ hs[h].pc = "insert"
    /\ \E e \in entries' \ entries : e.entry_type = "normal" /\ e.id = resp'[h].id

\* C33: the gate turns away every new write while a compaction is in
\* flight: no create-entry request inserts a normal entry while writeLocked
\* is true, whether it read the gate before or after compactDay closed it.
C33_NoInsertWhileGateClosed ==
    [][\A h \in Handlers : InsertStep(h) => ~writeLocked]_vars

\* C35: the day the scheduler passes to compactDay is the calendar day
\* under which entries are stored: for every time zone and every tick
\* time, an entry whose created_at is taken while the scheduler's 'today'
\* is D is one of the entries compactDay(D) selects, and the daily_compact
\* entry the scheduler's compactDay(D) inserts is itself dated D.
C35_SchedulerDayIsStorageDay ==
    [][/\ \A h \in Handlers :
            (hs[h].pc = "gate" /\ hs'[h].pc = "insert") =>
                LET e == [id |-> seq + 1, user_id |-> hs'[h].user,
                          entry_type |-> "normal", content |-> hs'[h].body,
                          created_at |-> hs'[h].now]
                IN  \E i \in 1..Len(SelectNormal({e}, LocalDay(clock))) :
                        SelectNormal({e}, LocalDay(clock))[i].ID = e.id
       /\ (cd[Sched].pc = "insert" /\ cd'[Sched].pc = "delete") =>
            \A c \in tx'.entries \ tx.entries :
                UTCDate(c.created_at) = cd[Sched].day
      ]_vars

\* The steps of a request that has been taken up.
HandlerRun(h) == HGate(h) \/ HInsert(h) \/ HListRows(h) \/ HListLog(h)

\* compactDay beside create and list requests, with the use of the one
\* pooled connection made explicit.
NextPool ==
    \/ \E p \in Invokers : InvokeCall(p) \/ InvokeReturn(p) \/ CompactDay(p)
    \/ \E h \in Handlers :
          \/ HStartFrom(h, {<<"a", "\n", "b">>}) \/ HGate(h) \/ HInsert(h) \/ HDone(h)
          \/ HListQuery(h) \/ HListRows(h) \/ HListLog(h)

\* A host in UTC.
InitPool == Init /\ tz = 0

\* sync.Mutex hands the lock to a goroutine that has waited (starvation
\* mode) and database/sql hands a released connection to a pending
\* request: a goroutine whose next statement can run again and again
\* does run it.
SpecPool ==
    /\ InitPool
    /\ [][NextPool]_vars
    /\ \A p \in Invokers : SF_vars(CompactDay(p))
    /\ \A h \in Handlers : SF_vars(HandlerRun(h))

\* An operation has been started and has not yet come to its end.
Started(o) ==
    IF o \in Invokers THEN cd[o].pc \notin {"idle", "ret"}
    ELSE hs[o].pc \notin {"idle", "done"}

\* C38: the engine cannot deadlock on the mutex and the one connection.
\* Under any interleaving of compactDay, create and list, a compactDay
\* with its transaction open always has its next statement ready (it
\* never waits for the pool while it holds the only connection), a list
\* request with its rows open can always end its loop, whenever an
\* operation is under way some step of an operation under way can be
\* taken, and every started operation comes to its end.
C38_NoDeadlock ==
    /\ [](/\ \A p \in Invokers :
                OwnsTx(p) => ENABLED (CompactDay(p) /\ ~CdStmtFail(p))
          /\ \A h \in Handlers :
                hs[h].pc = "rows" => ENABLED (HListRows(h) /\ hs'[h].pc = "log")
          /\ (\E o \in Invokers \cup Handlers : Started(o)) =>
                \/ \E p \in Invokers : Started(p) /\ ENABLED CompactDay(p)
                \/ \E h \in Handlers : Started(h) /\ ENABLED HandlerRun(h))
    /\ \A p \in Invokers : (cd[p].pc = "lock") ~> (cd[p].pc = "ret")
    /\ \A h \in Handlers : (hs[h].pc \in {"gate", "insert", "rows", "log"}) ~> (hs[h].pc = "done")

\* Everything waits at once: an invocation has its transaction open, the
\* other waits for the mutex, and a list request that has read its rows
\* waits for the connection to write its audit record.
C38_Witness ==
    \E p, q \in Invokers, h \in Handlers :
        /\ OwnsTx(p)
        /\ cd[p].pc = "delete"
        /\ cd[q].pc = "lock"
        /\ hs[h].pc = "log"
        /\ ~ENABLED HandlerRun(h)
        /\ ~ENABLED CompactDay(q)

(* ------------------------ admin bootstrap-admin ----------------------- *)

\* What a bootstrap-admin process never touches.
bframe ==
    << clock, tz, entries, seq, compactions, writeLocked, compactMu, tx, sched, cd, hs,
       resp, merges, run, disp >>

\* SELECT COUNT(1) FROM users WHERE role = 'admin'
CountAdmins(us) == Cardinality({u \in us : u.role = "admin"})

\* The id AUTOINCREMENT gives the next users row.
NextUserId(us) == 1 + Cardinality(us)

\* runAdminBootstrapAdmin is started: the flags are parsed, an empty
\* --username is an error, the database is opened.
BootCall(b) ==
    /\ boot[b].pc = "idle"
    /\ \E name \in BootUsernames :
          IF TrimSpace(name) = <<>>
          THEN boot' = [boot EXCEPT ![b] = [IdleBoot EXCEPT !.pc = "ret",
                                              !.err = "--username is required"]]
          ELSE boot' = [boot EXCEPT ![b] = [IdleBoot EXCEPT !.pc = "count",
                                              !.username = TrimSpace(name)[1]]]
    /\ UNCHANGED << bframe, users, action_logs >>

\* The count of the admins, scanned into the local variable (or an error).
BootCount(b) ==
    /\ boot[b].pc = "count"
    /\ \/ boot' = [boot EXCEPT ![b].pc = "check", ![b].admins = CountAdmins(users)]
       \/ boot' = [boot EXCEPT ![b].pc = "ret", ![b].err = "io"]
    /\ UNCHANGED << bframe, users, action_logs >>

\* if admins > 0: the error; otherwise createUserWithRole(username,
\* "admin"), whose INSERT fails on a username that exists (UNIQUE).
BootCreate(b) ==
    /\ boot[b].pc = "check"
    /\ IF boot[b].admins > 0
       THEN /\ boot' = [boot EXCEPT ![b].pc = "ret", ![b].err = "admin already exists"]
            /\ users' = users
       ELSE IF \E u \in users : u.username = boot[b].username
       THEN /\ boot' = [boot EXCEPT ![b].pc = "ret", ![b].err = "constraint"]
            /\ users' = users
       ELSE /\ users' = users \cup {[id |-> NextUserId(users),
                                      username |-> boot[b].username, role |-> "admin"]}
            /\ boot' = [boot EXCEPT ![b].pc = "log", ![b].uid = NextUserId(users)]
    /\ UNCHANGED << bframe, action_logs >>

\* logAction "bootstrap_admin" and the token printed.
BootLog(b) ==
    /\ boot[b].pc = "log"
    /\ action_logs' = LogAction(action_logs, "admin_cli", "bootstrap", "bootstrap_admin",
                                <<"target_username=", boot[b].username, " user_id=",
                                  ToString(boot[b].uid)>>, nowUTC)
    /\ boot' = [boot EXCEPT ![b].pc = "ret"]
    /\ UNCHANGED << bframe, users >>

\* The process ends.
BootReturn(b) ==
    /\ boot[b].pc = "ret"
    /\ boot' = [boot EXCEPT ![b] = IdleBoot]
    /\ UNCHANGED << bframe, users, action_logs >>

runAdminBootstrapAdmin(b) ==
    BootCall(b) \/ BootCount(b) \/ BootCreate(b) \/ BootLog(b) \/ BootReturn(b)

\* bootstrap-admin run again and again, by processes that may overlap, on
\* one database file.
NextBootstrap == \E b \in Boots : runAdminBootstrapAdmin(b)

SpecBootstrap == Init /\ [][NextBootstrap]_vars

\* C31: bootstrap-admin creates an admin only when none exists.  After any
\* sequence of invocations, two concurrent ones on the same database
\* included, at most one admin has been created by bootstrap-admin, and an
\* invocation that runs its INSERT creates a user only if the table holds
\* no admin at that moment; one that finds an admin fails and creates none.
C31_AtMostOneBootstrapAdmin ==
    /\ [](CountAdmins(users) <= 1)
    /\ [][\A b \in Boots :
            (boot[b].pc = "check" /\ boot'[b] # boot[b]) =>
                /\ users' # users => CountAdmins(users) = 0
                /\ boot[b].admins > 0 =>
                      (users' = users /\ boot'[b].err = "admin already exists")
         ]_vars

\* C32: no entry is lost by a compaction, under any interleaving with
\* create requests.  The normal entries a commit of compactDay(D) removes
\* are the entries the invocation read, the body of the daily_compact
\* entry it leaves is the header and the line of each of them, and the
\* DELETE removes from the transaction's view the entries read and no
\* other; while a transaction is open no handler's INSERT takes effect, so
\* none falls between the engine's read and its delete.
C32_DeletedAreTheMerged ==
    [][/\ \A p \in Invokers :
            /\ CommitStep(p) =>
                  LET gone == entries \ entries'
                      made == entries' \ entries
                      src == cd[p].src
                  IN  /\ {e.id : e \in gone} = {src[k].ID : k \in 1..Len(src)}
                      /\ Cardinality(gone) = Len(src)
                      /\ \A e \in gone : e.entry_type = "normal"
                      /\ gone # {} =>
                            /\ made # {}
                            /\ \A c \in made :
                                  c.content = CompactBody(cd[p].day, src)
                      /\ \A c \in made :
                            /\ c.entry_type = "daily_compact"
                            /\ \A e \in gone :
                                  \E n \in 1..Len(c.content) :
                                      SubSeq(c.content, n, n + Len(LineOf(e)) - 1) = LineOf(e)
            /\ (cd[p].pc = "delete" /\ cd'[p].pc = "ledger") =>
                  {e.id : e \in tx.entries \ tx'.entries}
                      = {cd[p].src[k].ID : k \in 1..Len(cd[p].src)}
       /\ \A h \in Handlers :
            InsertStep(h) => (~tx.active /\ ~tx'.active)
       /\ tx.active => (entries' = entries \/ \E p \in Invokers : CommitStep(p))
      ]_vars

\* A compaction has committed the merge of an entry while a create
\* request that had passed the gate waited for the connection with its
\* INSERT.
C32_Witness ==
    \E p \in Invokers, h \in Handlers :
        /\ cd[p].pc = "rollback"
        /\ cd[p].err = "nil"
        /\ Len(cd[p].src) = 1
        /\ ~tx.active
        /\ hs[h].pc = "insert"
        /\ \E e \in entries : e.id = cd[p].cid /\ e.entry_type = "daily_compact"

====
